---------------------------- MODULE Spec2Model ----------------------------
(***************************************************************************)
(* A model of the video-content-agent pipeline.                            *)
(*                                                                         *)
(*   SpecVideo     runVideoGenerationStage (src/agents/video_generation.ts)*)
(*                 as the sequence of its await points: client, connection *)
(*                 lookup, generation request, the bounded polling loop,   *)
(*                 the download.                                           *)
(*   SpecParse     the "safe JSON parsing" of one model output, as the     *)
(*                 research stage does it for each of its two streams.     *)
(*   SpecResearch  runResearchStage (src/agents/research.ts): the three    *)
(*                 agent runs and the two parses.                          *)
(*   SpecVideoFair SpecVideo where every pending await settles.            *)
(*   SpecAudio     runAudioStage (src/agents/audio.ts).                    *)
(*   SpecScripting runScriptingStage (src/nodes/scripting.ts).             *)
(*   SpecMain      main: research, the script and review loop, audio,      *)
(*                 video.                                                  *)
(*   SpecConcurrent two runVideoGenerationStage calls at once.             *)
(*   SpecCli       the App component of the CLI (src/cli/app.tsx).         *)
(*   SpecCliFair   SpecCli where every call settles and every form is      *)
(*                 submitted.                                              *)
(*   SpecReview    runHumanReviewNode (src/agents/human_review.ts).        *)
(*   SpecClient    getComposioClient and getComposioUserId                 *)
(*                 (src/services/client.ts).                               *)
(*   SpecDownload  SpecVideo with a write stream that may fail, and        *)
(*                 SpecDownloadFair, where every pending event comes.      *)
(*                                                                         *)
(* Strings of the program are TLA+ strings; a model output that is parsed  *)
(* is a sequence of tokens (see Alphabet).                                 *)
(***************************************************************************)
EXTENDS Integers, Sequences, FiniteSets, TLC

\* JavaScript's undefined / null, where the program only tests for absence.
Undefined == "<undefined>"

\* A test for undefined only, which lets the empty string through.
Truthy_DefinedOnly(v) == v /= Undefined

\* !v for the string-or-absent values the program tests.
Truthy(v) == v /= Undefined /\ v /= ""

(***************************************************************************)
(* runVideoGenerationStage                                                 *)
(***************************************************************************)

\* The interval written in seconds where setTimeout takes milliseconds.
POLLING_INTERVAL_Seconds == 15000 \div 1000

POLLING_INTERVAL == 15000

MAX_POLLING_ATTEMPTS == 60

\* The values the remote services can hand back.
ConnectionIds == {"conn-1"}
VideoIds == {"vid-1", "vid-2"}
VideoUrls == {"https://heygen/a.mp4", "https://heygen/b.mp4"}
StartErrors == {"unauthorized"}
ErrorPayloads == {"quota", "render"}
Statuses == {"completed", "failed", "processing", "pending", "waiting",
             "unknown_status"}
Timestamps == {"1700000000000", "1700000000001"}
HttpStatusCodes == {"403", "404"}

\* JSON.stringify inside a template literal: a string is quoted, and
\* JSON.stringify(undefined) is undefined, which the template prints.
JSONstringify(v) == IF v = Undefined THEN "undefined" ELSE "\"" \o v \o "\""

\* generateResp.data: absent, or {error?, data?: {video_id?}}.
GenerateResponses ==
    { r \in [body : BOOLEAN, error : {Undefined} \cup StartErrors,
             data : BOOLEAN, video_id : {Undefined, ""} \cup VideoIds] :
        /\ (~r.body => r.error = Undefined /\ ~r.data)
        /\ (~r.data => r.video_id = Undefined) }

\* statusResp.data?.data: absent, or {status?, video_url?, error?}.
StatusResponses ==
    { r \in [data : BOOLEAN, status : {Undefined} \cup Statuses,
             video_url : {Undefined} \cup VideoUrls,
             error : {Undefined} \cup ErrorPayloads] :
        ~r.data => r.status = Undefined /\ r.video_url = Undefined
                   /\ r.error = Undefined }

VARIABLES
    vpc,              \* where runVideoGenerationStage is suspended
    envValid,         \* process.env passes envSchema
    composioInstance, \* the client singleton is set
    connectionId,
    videoId,
    attempts,
    status,           \* the status read from the last status response
    statusData,       \* the last status response
    videoUrl,
    outputPath,       \* downloadVideo's target file
    result,           \* the returned {videoUrl, savedPath}, or Undefined
    error,            \* the message of the raised Error, as its parts
    responseData,     \* generateResp.data, once the request resolved
    generateCalls,    \* POST /v2/video/generate requests sent
    generateReplies,  \* responses to them received
    statusQueries,    \* GET /v1/video_status.get requests sent
    statusReplies,    \* status responses received
    timers,           \* setTimeout calls of the polling loop
    timerDelays,      \* the delays those calls were given
    timerDelay,       \* the delay of the timer that is pending
    pendingWaits,     \* timers fired since the last status query was sent
    lastGap,          \* timers fired between the last status query and the
                      \* event before it (the job id or the previous query)
    totalWaitMs,      \* sum of the delays of the timers fired
    downloads,        \* downloadVideo calls
    terminalAt,       \* the position, among the status responses, of the
                      \* first "completed" or "failed" one, 0 if none yet
    statusCode,       \* response.statusCode of the download
    fileFinished,     \* the write stream emitted "finish"
    fileCreated,      \* fs.createWriteStream(outputPath) was called
    unlinkAttempted   \* fs.unlink(outputPath, ...) was called

\* What the stage read and counted, left alone by most steps.
replyVars == <<responseData, generateReplies, statusReplies>>

videoVars == <<vpc, envValid, composioInstance, connectionId, videoId,
               attempts, status, statusData, videoUrl, outputPath, result,
               error, generateCalls, statusQueries, timers, timerDelays,
               timerDelay, pendingWaits, lastGap, totalWaitMs, downloads,
               terminalAt, replyVars, statusCode, fileFinished,
               fileCreated, unlinkAttempted>>

\* What only downloadVideo's callbacks set.
downloadVars == <<statusCode, fileFinished, fileCreated, unlinkAttempted>>

VARIABLES
    rpc,             \* where runResearchStage is suspended
    ytResult,        \* ytResult.finalOutput
    trendResult,     \* trendResult.finalOutput
    twitterResult,   \* twitterResult.finalOutput
    videos,
    videosVia,       \* the branch of the parse that left `videos`
    twitterInsights,
    twitterVia,      \* the branch that left `twitterInsights`
    parsedStreams,   \* the outputs the parse has been applied to
    researchData     \* the object runResearchStage returned

researchVars == <<rpc, ytResult, trendResult, twitterResult, videos,
                  videosVia, twitterInsights, twitterVia, parsedStreams,
                  researchData>>

VARIABLES
    apc,             \* where runAudioStage is suspended
    rawOutput,       \* result.finalOutput ?? ""
    urlMatch,        \* urlMatch[0], or NoMatch
    audioReturn,     \* the string runAudioStage returned
    audioError       \* the message of the Error it raised

audioVars == <<apc, rawOutput, urlMatch, audioReturn, audioError>>

VARIABLES
    spc,             \* where runScriptingStage is suspended
    sResearchData,   \* state.researchData of the argument
    sFeedback,       \* state.feedback of the argument
    taskInstruction,
    fullPrompt,      \* the prompt handed to run, as its parts
    cleanOutput,     \* the script runScriptingStage returned
    scriptError      \* the message of the Error it raised

scriptingVars == <<spc, sResearchData, sFeedback, taskInstruction,
                   fullPrompt, cleanOutput, scriptError>>

VARIABLES
    mpc,             \* where main is suspended
    state,           \* the AgentState of main
    scriptApproved,
    reviewResult,    \* what the last runHumanReviewNode call returned
    mTask,           \* the task instruction of the last scripting run
    runFeedback,     \* state.feedback as the last scripting run read it
    calls,           \* the calls of each stage so far
    returns,         \* the calls of each stage that returned
    approvals,       \* reviews that returned approved
    rejections,      \* reviews that returned not approved
    prompts,         \* approval requests put to the user
    reviewArg,       \* the script handed to the last review
    approvedScript,  \* the script of the review that returned approved
    audioArg,        \* the script handed to runAudioStage
    videoArg,        \* the URL handed to runVideoGenerationStage
    failedIn         \* the await whose error "Pipeline Failed" logged

mainVars == <<mpc, state, scriptApproved, reviewResult, mTask, runFeedback,
              calls, returns, approvals, rejections, prompts, reviewArg,
              approvedScript, audioArg, videoArg, failedIn>>

VARIABLES
    now,             \* what Date.now() returns
    runs             \* the concurrent calls of runVideoGenerationStage

concurrentVars == <<now, runs>>

VARIABLES
    batched,         \* the renderer applies the state updates of one
                     \* continuation together
    step,
    topic,
    appScript,       \* the `script` state of App
    appFeedback,     \* the `feedback` state of App
    cliError,        \* the `error` state of App
    pending,         \* the workflow calls not settled yet, by function
    invoked,         \* the workflow calls made, by function
    stepsTaken,      \* the changes of `step` so far: from, to, and the
                     \* workflow call or handler that made them
    errored,         \* `step` has been "error"
    invokedAfterError,
    exitCalled       \* exit() of useApp() was called

cliVars == <<batched, step, topic, appScript, appFeedback, cliError, pending,
             invoked, stepsTaken, errored, invokedAfterError, exitCalled>>

VARIABLES
    hpc,             \* position of runHumanReviewNode
    hScript,         \* its argument
    confirmAnswer,   \* isApproved, the answer to the confirm prompt
    hResult,         \* what it returned
    hPrompts         \* the prompts it made

reviewVars == <<hpc, hScript, confirmAnswer, hResult, hPrompts>>

VARIABLES
    processEnv,      \* process.env
    clientInstance,  \* the module's composioInstance
    parsedEnv,
    exitCode,        \* the code of process.exit, once called
    instances,       \* the Composio clients constructed so far
    validations,     \* the calls of envSchema.safeParse so far
    clientCalls,     \* the calls of the two getters so far
    lastClient,      \* what the last getComposioClient() returned
    lastUserId,      \* what the last getComposioUserId() returned
    storedBefore     \* clientInstance when the last call began

clientVars == <<processEnv, clientInstance, parsedEnv, exitCode, instances,
                validations, clientCalls, lastClient, lastUserId,
                storedBefore>>

\* The variables of the stages declared after the research stage.
laterVars ==
    <<audioVars, scriptingVars, mainVars, concurrentVars, cliVars,
      reviewVars, clientVars>>

\* The variables a step of one stage leaves alone.
nonVideoVars == <<researchVars, laterVars>>
nonResearchVars == <<videoVars, laterVars>>
nonAudioVars ==
    <<videoVars, researchVars, scriptingVars, mainVars,
      concurrentVars, cliVars, reviewVars, clientVars>>
nonScriptingVars ==
    <<videoVars, researchVars, audioVars, mainVars,
      concurrentVars, cliVars, reviewVars, clientVars>>
nonMainVars ==
    <<videoVars, researchVars, audioVars, scriptingVars,
      concurrentVars, cliVars, reviewVars, clientVars>>
nonConcurrentVars ==
    <<videoVars, researchVars, audioVars, scriptingVars,
      mainVars, cliVars, reviewVars, clientVars>>
nonCliVars ==
    <<videoVars, researchVars, audioVars, scriptingVars,
      mainVars, concurrentVars, reviewVars, clientVars>>
nonReviewVars ==
    <<videoVars, researchVars, audioVars, scriptingVars,
      mainVars, concurrentVars, cliVars, clientVars>>
nonClientVars ==
    <<videoVars, researchVars, audioVars, scriptingVars,
      mainVars, concurrentVars, cliVars, reviewVars>>

vars == <<videoVars, researchVars, laterVars>>

NoResult == [videoUrl |-> Undefined, savedPath |-> Undefined]
NoStatusData == [data |-> FALSE, status |-> Undefined,
                 video_url |-> Undefined, error |-> Undefined]
NoResponseData == [body |-> FALSE, error |-> Undefined, data |-> FALSE,
                   video_id |-> Undefined]

InitVideo ==
    /\ vpc = "start"
    /\ envValid \in BOOLEAN
    /\ composioInstance = FALSE
    /\ connectionId = Undefined
    /\ videoId = Undefined
    /\ attempts = 0
    /\ status = Undefined
    /\ statusData = NoStatusData
    /\ videoUrl = Undefined
    /\ outputPath = Undefined
    /\ result = NoResult
    /\ error = <<>>
    /\ responseData = NoResponseData
    /\ generateCalls = 0
    /\ generateReplies = 0
    /\ statusReplies = 0
    /\ statusQueries = 0
    /\ timers = 0
    /\ timerDelays = {}
    /\ timerDelay = 0
    /\ pendingWaits = 0
    /\ lastGap = 0
    /\ totalWaitMs = 0
    /\ downloads = 0
    /\ terminalAt = 0
    /\ statusCode = Undefined
    /\ fileFinished = FALSE
    /\ fileCreated = FALSE
    /\ unlinkAttempted = FALSE

\* "completed" misspelt: a finished job is polled on.
Classify_CompletedMisspelt(s) ==
    IF s = "complete" THEN "completed"
    ELSE IF s = "failed" THEN "failed"
    ELSE "continue"

\* The loop of the earlier variant without the "failed" test.
Classify_FailedIgnored(s) ==
    IF s = "completed" THEN "completed" ELSE "continue"

\* Only the known intermediate statuses continue; the rest fail.
Classify_UnknownFails(s) ==
    IF s = "completed" THEN "completed"
    ELSE IF s \in {"processing", "pending", "waiting"} THEN "continue"
    ELSE "failed"

\* The two tests the loop makes on a status: `status === "completed"`,
\* `status === "failed"`; any other value falls through to attempts++.
Classify(s) ==
    IF s = "completed" THEN "completed"
    ELSE IF s = "failed" THEN "failed"
    ELSE "continue"

\* throw new Error(parts): the stage rejects, nothing else changes.
Raise(parts) ==
    /\ vpc' = "raised"
    /\ error' = parts

\* The loop left without the timeout error: the stage neither returns nor
\* raises.
LoopHead_NoTimeout(a, id, w) ==
    IF a < MAX_POLLING_ATTEMPTS
    THEN /\ vpc' = "awaitStatus"
         /\ statusQueries' = statusQueries + 1
         /\ lastGap' = w
         /\ pendingWaits' = 0
         /\ error' = error
    ELSE /\ vpc' = "hung"
         /\ error' = error
         /\ pendingWaits' = w
         /\ UNCHANGED <<statusQueries, lastGap>>

\* The loop head with `<=` for `<`.
LoopHead_OffByOne(a, id, w) ==
    IF a <= MAX_POLLING_ATTEMPTS
    THEN /\ vpc' = "awaitStatus"
         /\ statusQueries' = statusQueries + 1
         /\ lastGap' = w
         /\ pendingWaits' = 0
         /\ error' = error
    ELSE /\ Raise(<<"Video generation timed out after ",
                    ToString(MAX_POLLING_ATTEMPTS), " attempts (",
                    ToString((MAX_POLLING_ATTEMPTS * POLLING_INTERVAL)
                             \div 60000),
                    " minutes). Video ID: ", id>>)
         /\ pendingWaits' = w
         /\ UNCHANGED <<statusQueries, lastGap>>

\* The loop head `while (attempts < MAX_POLLING_ATTEMPTS)` reached with the
\* attempt count a after w timers fired: either the next status query is
\* sent, or the loop is left and the timeout error is thrown.
LoopHead(a, id, w) ==
    IF a < MAX_POLLING_ATTEMPTS
    THEN /\ vpc' = "awaitStatus"
         /\ statusQueries' = statusQueries + 1
         /\ lastGap' = w
         /\ pendingWaits' = 0
         /\ error' = error
    ELSE /\ Raise(<<"Video generation timed out after ",
                    ToString(MAX_POLLING_ATTEMPTS), " attempts (",
                    ToString((MAX_POLLING_ATTEMPTS * POLLING_INTERVAL)
                             \div 60000),
                    " minutes). Video ID: ", id>>)
         /\ pendingWaits' = w
         /\ UNCHANGED <<statusQueries, lastGap>>

\* getComposioClient(), then the call of getHeyGenConnectionId("HEYGEN").
StartStage ==
    /\ vpc = "start"
    /\ UNCHANGED nonVideoVars
    /\ UNCHANGED downloadVars
    /\ IF envValid
       THEN /\ composioInstance' = TRUE
            /\ vpc' = "awaitConnection"
       ELSE /\ vpc' = "exited"          \* process.exit(1)
            /\ UNCHANGED composioInstance
    /\ UNCHANGED <<envValid, connectionId, videoId, attempts, status,
                   statusData, videoUrl, outputPath, result, error,
                   generateCalls, statusQueries, timers, timerDelays,
                   timerDelay, pendingWaits, lastGap, totalWaitMs,
                   downloads, terminalAt,
                   replyVars>>

\* The connection lookup resolves: the payload is built and the generation
\* request is sent.
ConnectionResolved ==
    /\ vpc = "awaitConnection"
    /\ UNCHANGED nonVideoVars
    /\ UNCHANGED downloadVars
    /\ \E id \in ConnectionIds : connectionId' = id
    /\ generateCalls' = generateCalls + 1
    /\ vpc' = "awaitGenerate"
    /\ UNCHANGED <<envValid, composioInstance, videoId, attempts, status,
                   statusData, videoUrl, outputPath, result, error,
                   statusQueries, timers, timerDelays, timerDelay,
                   pendingWaits, lastGap, totalWaitMs, downloads,
                   terminalAt,
                   replyVars>>

\* The connection lookup rejects ("No active connection found ...").
ConnectionRejected ==
    /\ vpc = "awaitConnection"
    /\ UNCHANGED nonVideoVars
    /\ UNCHANGED downloadVars
    /\ Raise(<<"No active connection found for ", "HEYGEN">>)
    /\ UNCHANGED <<envValid, composioInstance, connectionId, videoId,
                   attempts, status, statusData, videoUrl, outputPath,
                   result, generateCalls, statusQueries, timers,
                   timerDelays, timerDelay, pendingWaits, lastGap,
                   totalWaitMs, downloads, terminalAt,
                   replyVars>>

\* The generation request resolves with r: the start error and the missing
\* video id are thrown, otherwise attempts = 0 and the loop is entered.
GenerateResolved ==
    /\ vpc = "awaitGenerate"
    /\ UNCHANGED nonVideoVars
    /\ UNCHANGED downloadVars
    /\ generateReplies' = generateReplies + 1
    /\ UNCHANGED statusReplies
    /\ \E r \in GenerateResponses :
        /\ responseData' = r
        /\ IF ~r.body
           THEN /\ Raise(<<"TypeError: Cannot read properties of undefined">>)
                /\ UNCHANGED <<videoId, attempts, statusQueries,
                               pendingWaits, lastGap>>
           ELSE IF Truthy(r.error)
           THEN /\ Raise(<<"HeyGen Start Error: ",
                           JSONstringify(r.error)>>)
                /\ UNCHANGED <<videoId, attempts, statusQueries,
                               pendingWaits, lastGap>>
           ELSE IF ~Truthy(r.video_id)
           THEN /\ Raise(<<"No Video ID received from HeyGen.">>)
                /\ videoId' = r.video_id
                /\ UNCHANGED <<attempts, statusQueries, pendingWaits,
                               lastGap>>
           ELSE /\ videoId' = r.video_id
                /\ attempts' = 0
                /\ LoopHead(0, r.video_id, pendingWaits)
    /\ UNCHANGED <<envValid, composioInstance, connectionId, status,
                   statusData, videoUrl, outputPath, result, generateCalls,
                   timers, timerDelays, timerDelay, totalWaitMs, downloads,
                   terminalAt>>

\* The generation request rejects (network error).
GenerateRejected ==
    /\ vpc = "awaitGenerate"
    /\ UNCHANGED nonVideoVars
    /\ UNCHANGED downloadVars
    /\ Raise(<<"Network error">>)
    /\ UNCHANGED <<envValid, composioInstance, connectionId, videoId,
                   attempts, status, statusData, videoUrl, outputPath,
                   result, generateCalls, statusQueries, timers,
                   timerDelays, timerDelay, pendingWaits, lastGap,
                   totalWaitMs, downloads, terminalAt,
                   replyVars>>

\* A status query resolves with r.  "completed": downloadVideo is called.
\* "failed": the error is thrown.  Anything else: attempts++ and the timer
\* is set.
StatusResolved ==
    /\ vpc = "awaitStatus"
    /\ UNCHANGED nonVideoVars
    /\ UNCHANGED <<statusCode, fileFinished, unlinkAttempted>>
    /\ statusReplies' = statusReplies + 1
    /\ UNCHANGED <<responseData, generateReplies>>
    /\ \E r \in StatusResponses, ts \in Timestamps :
        /\ statusData' = r
        /\ status' = r.status
        /\ IF Classify(r.status) = "completed"
           THEN /\ videoUrl' = r.video_url
                /\ outputPath' = "Downloads/heygen_video_" \o ts \o ".mp4"
                /\ downloads' = downloads + 1
                /\ fileCreated' = TRUE
                /\ vpc' = "awaitDownload"
                /\ terminalAt' = statusReplies + 1
                /\ UNCHANGED <<attempts, timers, timerDelays, timerDelay,
                               error>>
           ELSE IF Classify(r.status) = "failed"
           THEN /\ Raise(<<"Generation Failed: ", JSONstringify(r.error)>>)
                /\ terminalAt' = statusReplies + 1
                /\ UNCHANGED <<attempts, timers, timerDelays, timerDelay,
                               videoUrl, outputPath, downloads,
                               fileCreated>>
           ELSE /\ attempts' = attempts + 1
                /\ timers' = timers + 1
                /\ timerDelay' = POLLING_INTERVAL
                /\ timerDelays' = timerDelays \cup {POLLING_INTERVAL}
                /\ vpc' = "awaitTimer"
                /\ UNCHANGED <<terminalAt, videoUrl, outputPath, downloads,
                               error, fileCreated>>
    /\ UNCHANGED <<envValid, composioInstance, connectionId, videoId,
                   result, generateCalls, statusQueries, pendingWaits,
                   lastGap, totalWaitMs>>

\* A status query rejects (network error).
StatusRejected ==
    /\ vpc = "awaitStatus"
    /\ UNCHANGED nonVideoVars
    /\ UNCHANGED downloadVars
    /\ Raise(<<"Network error">>)
    /\ UNCHANGED <<envValid, composioInstance, connectionId, videoId,
                   attempts, status, statusData, videoUrl, outputPath,
                   result, generateCalls, statusQueries, timers,
                   timerDelays, timerDelay, pendingWaits, lastGap,
                   totalWaitMs, downloads, terminalAt,
                   replyVars>>

\* The timer fires: back to the loop head.
TimerFired ==
    /\ vpc = "awaitTimer"
    /\ UNCHANGED nonVideoVars
    /\ UNCHANGED downloadVars
    /\ totalWaitMs' = totalWaitMs + timerDelay
    /\ LoopHead(attempts, videoId, pendingWaits + 1)
    /\ UNCHANGED <<envValid, composioInstance, connectionId, videoId,
                   attempts, status, statusData, videoUrl, outputPath,
                   result, generateCalls, timers, timerDelays, timerDelay,
                   downloads, terminalAt,
                   replyVars>>

\* 200, and what else the download's server may answer.
DownloadStatusCodes == HttpStatusCodes \cup {"200"}

\* A response of any status taken for the video.
ResponseOk_Any(code) == TRUE

\* `response.statusCode !== 200` fails.
ResponseOk(code) == code = "200"

\* The response callback of https.get: a status other than 200 rejects the
\* download, and the stage with it; otherwise the response is piped to the
\* file.
DownloadResponse ==
    /\ vpc = "awaitDownload"
    /\ UNCHANGED nonVideoVars
    /\ videoUrl /= Undefined
    /\ \E code \in DownloadStatusCodes :
        /\ statusCode' = code
        /\ IF ResponseOk(code)
           THEN vpc' = "awaitFinish" /\ UNCHANGED error
           ELSE Raise(<<"Failed to download video. Status: ", code>>)
    /\ UNCHANGED <<envValid, composioInstance, connectionId, videoId,
                   attempts, status, statusData, videoUrl, outputPath,
                   result, generateCalls, statusQueries, timers,
                   timerDelays, timerDelay, pendingWaits, lastGap,
                   totalWaitMs, downloads, terminalAt,
                   replyVars, fileFinished, fileCreated, unlinkAttempted>>

\* The file emits "finish": downloadVideo resolves with its output path
\* and the stage returns {videoUrl, savedPath}.
DownloadResolved ==
    /\ vpc = "awaitFinish"
    /\ UNCHANGED nonVideoVars
    /\ fileFinished' = TRUE
    /\ result' = [videoUrl |-> videoUrl, savedPath |-> outputPath]
    /\ vpc' = "returned"
    /\ UNCHANGED <<envValid, composioInstance, connectionId, videoId,
                   attempts, status, statusData, videoUrl, outputPath,
                   error, generateCalls, statusQueries, timers,
                   timerDelays, timerDelay, pendingWaits, lastGap,
                   totalWaitMs, downloads, terminalAt,
                   replyVars, statusCode, fileCreated, unlinkAttempted>>

\* The request emits "error" before a response came: the output file is
\* unlinked, downloadVideo rejects with that error, and the stage with it.
DownloadRejected ==
    /\ vpc = "awaitDownload"
    /\ UNCHANGED nonVideoVars
    /\ unlinkAttempted' = TRUE
    /\ Raise(<<"Network error">>)
    /\ UNCHANGED <<envValid, composioInstance, connectionId, videoId,
                   attempts, status, statusData, videoUrl, outputPath,
                   result, generateCalls, statusQueries, timers,
                   timerDelays, timerDelay, pendingWaits, lastGap,
                   totalWaitMs, downloads, terminalAt,
                   replyVars, statusCode, fileFinished, fileCreated>>

\* The write stream emits "error" (the file cannot be opened, the disk is
\* full): the stream has no "error" listener, so the event is thrown as an
\* uncaught exception and the process ends with the promise of
\* downloadVideo neither resolved nor rejected.
DownloadFileError ==
    /\ vpc \in {"awaitDownload", "awaitFinish"}
    /\ UNCHANGED nonVideoVars
    /\ vpc' = "crashed"
    /\ UNCHANGED <<envValid, composioInstance, connectionId, videoId,
                   attempts, status, statusData, videoUrl, outputPath,
                   result, error, generateCalls, statusQueries, timers,
                   timerDelays, timerDelay, pendingWaits, lastGap,
                   totalWaitMs, downloads, terminalAt,
                   replyVars, downloadVars>>

NextVideo ==
    \/ StartStage
    \/ ConnectionResolved
    \/ ConnectionRejected
    \/ GenerateResolved
    \/ GenerateRejected
    \/ StatusResolved
    \/ StatusRejected
    \/ TimerFired
    \/ DownloadResponse
    \/ DownloadResolved
    \/ DownloadRejected

\* The steps of the stage, and the failure of the write stream of the
\* download.
NextDownload ==
    \/ StartStage
    \/ ConnectionResolved
    \/ ConnectionRejected
    \/ GenerateResolved
    \/ GenerateRejected
    \/ StatusResolved
    \/ StatusRejected
    \/ TimerFired
    \/ DownloadResponse
    \/ DownloadResolved
    \/ DownloadRejected
    \/ DownloadFileError

(***************************************************************************)
(* The research parser.  A model output is a sequence of tokens: each      *)
(* token of Alphabet stands for one piece of text.                         *)
(*    "["  "]"  ","   the JSON punctuation                                 *)
(*    "1"             a digit                                              *)
(*    "n"             the JSON literal null                                *)
(*    " "             white space                                          *)
(*    "F"             a markdown fence, three backticks                    *)
(*    "j"             the word json (prose; after a fence, its language)   *)
(* A parsed JSON value is kept as its canonical text: the tokens of the    *)
(* value without white space.                                              *)
(***************************************************************************)

MaxLen == 4

Alphabet == {"[", "]", ",", "1", "n", " ", "F", "j"}

\* The strings of at most n tokens.
Texts(n) == UNION {[1..k -> Alphabet] : k \in 0..n}

\* finalOutput when the run produced none (null or undefined).
Null == <<"<null>">>

\* `if (result.finalOutput)`: null, undefined and "" are falsy.
HasOutput(t) == t /= Null /\ t /= <<>>

EmptyArray == <<"[", "]">>

NullValue == <<"n">>

\* Array.isArray of a parsed value.
IsArray(v) == Len(v) >= 2 /\ v[1] = "["

\* .replace(/```json|```/g, ""): left to right, a fence goes with the word
\* json that follows it, a fence alone goes too.
RECURSIVE StripFences(_)
StripFences(t) ==
    IF t = <<>> THEN <<>>
    ELSE IF t[1] = "F"
    THEN IF Len(t) >= 2 /\ t[2] = "j"
         THEN StripFences(SubSeq(t, 3, Len(t)))
         ELSE StripFences(Tail(t))
    ELSE <<t[1]>> \o StripFences(Tail(t))

\* String.prototype.trim.
RECURSIVE Trim(_)
Trim(t) ==
    IF t = <<>> THEN t
    ELSE IF t[1] = " " THEN Trim(Tail(t))
    ELSE IF t[Len(t)] = " " THEN Trim(SubSeq(t, 1, Len(t) - 1))
    ELSE t

\* JSON.parse, by recursive descent.  SkipWs and DigitsEnd give the index
\* after the white space, the digits, that start at i.
RECURSIVE SkipWs(_, _)
SkipWs(t, i) == IF i <= Len(t) /\ t[i] = " " THEN SkipWs(t, i + 1) ELSE i

RECURSIVE DigitsEnd(_, _)
DigitsEnd(t, i) ==
    IF i <= Len(t) /\ t[i] = "1" THEN DigitsEnd(t, i + 1) ELSE i

SyntaxError == [ok |-> FALSE, next |-> 0, val |-> <<>>]

\* ParseValue: the value that starts at i.  ParseElements: the rest of an
\* array, from the element at i on, acc being the canonical text so far.
RECURSIVE ParseValue(_, _), ParseElements(_, _, _)
ParseValue(t, i) ==
    IF i > Len(t) THEN SyntaxError
    ELSE IF t[i] = "1"
    THEN [ok |-> TRUE, next |-> DigitsEnd(t, i),
          val |-> SubSeq(t, i, DigitsEnd(t, i) - 1)]
    ELSE IF t[i] = "n"
    THEN [ok |-> TRUE, next |-> i + 1, val |-> NullValue]
    ELSE IF t[i] = "["
    THEN LET j == SkipWs(t, i + 1)
         IN  IF j <= Len(t) /\ t[j] = "]"
             THEN [ok |-> TRUE, next |-> j + 1, val |-> EmptyArray]
             ELSE ParseElements(t, j, <<"[">>)
    ELSE SyntaxError

ParseElements(t, i, acc) ==
    LET v == ParseValue(t, i)
        j == SkipWs(t, v.next)
    IN  IF ~v.ok \/ j > Len(t) THEN SyntaxError
        ELSE IF t[j] = "]"
        THEN [ok |-> TRUE, next |-> j + 1, val |-> acc \o v.val \o <<"]">>]
        ELSE IF t[j] = ","
        THEN ParseElements(t, SkipWs(t, j + 1), acc \o v.val \o <<",">>)
        ELSE SyntaxError

JSONparse(t) ==
    LET v == ParseValue(t, SkipWs(t, 1))
    IN  IF v.ok /\ SkipWs(t, v.next) > Len(t)
        THEN [ok |-> TRUE, val |-> v.val]
        ELSE [ok |-> FALSE, val |-> <<>>]

\* The positions of a token in a text.
Positions(t, c) == {i \in 1..Len(t) : t[i] = c}

Min(S) == CHOOSE i \in S : \A k \in S : i <= k
Max(S) == CHOOSE i \in S : \A k \in S : i >= k

\* The lazy star, /\[.*?\]/s: the match ends at the first "]" after the
\* first "[".
RegexMatch_Lazy(t) ==
    LET opens == Positions(t, "[")
        after == {i \in Positions(t, "]") : opens /= {} /\ i > Min(opens)}
    IN  IF after /= {}
        THEN [found |-> TRUE, span |-> SubSeq(t, Min(opens), Min(after))]
        ELSE [found |-> FALSE, span |-> <<>>]

\* finalOutput.match(/\[.*\]/s): the leftmost "[" that has a "]" after it,
\* and, the star being greedy and the dot matching every character, all
\* the text up to the last "]".
RegexMatch(t) ==
    LET opens == Positions(t, "[")
        closes == Positions(t, "]")
    IN  IF opens /= {} /\ closes /= {} /\ Min(opens) < Max(closes)
        THEN [found |-> TRUE, span |-> SubSeq(t, Min(opens), Max(closes))]
        ELSE [found |-> FALSE, span |-> <<>>]

\* Reading .length of the parsed value, in the log line that follows each
\* JSON.parse inside the try block: it throws for null.
LengthThrows(v) == v = NullValue

\* The parse without its fallback: a failed strict parse gives [].
ParseVideos_StrictOnly(finalOutput) ==
    IF ~HasOutput(finalOutput)
    THEN [value |-> EmptyArray, via |-> "initial"]
    ELSE LET parsed == JSONparse(Trim(StripFences(finalOutput)))
         IN  IF parsed.ok /\ ~LengthThrows(parsed.val)
             THEN [value |-> parsed.val, via |-> "strict"]
             ELSE [value |-> EmptyArray, via |-> "noMatch"]

\* "Safe JSON Parsing" of the YouTube output: the value left in `videos`
\* and the branch that left it there.
ParseVideos(finalOutput) ==
    IF ~HasOutput(finalOutput)
    THEN [value |-> EmptyArray, via |-> "initial"]
    ELSE LET cleanJson == Trim(StripFences(finalOutput))
             parsed == JSONparse(cleanJson)
         IN  IF parsed.ok /\ ~LengthThrows(parsed.val)
             THEN [value |-> parsed.val, via |-> "strict"]
             ELSE LET match == RegexMatch(finalOutput)
                      again == JSONparse(match.span)
                  IN  IF match.found
                      THEN IF again.ok /\ ~LengthThrows(again.val)
                           THEN [value |-> again.val, via |-> "fallback"]
                           ELSE [value |-> EmptyArray,
                                 via |-> "fallbackFailed"]
                      ELSE [value |-> EmptyArray, via |-> "noMatch"]

\* The Twitter copy without the fallback of the YouTube copy.
ParseTwitter_StrictOnly(finalOutput) ==
    IF ~HasOutput(finalOutput)
    THEN [value |-> EmptyArray, via |-> "initial"]
    ELSE LET parsed == JSONparse(Trim(StripFences(finalOutput)))
         IN  IF parsed.ok /\ ~LengthThrows(parsed.val)
             THEN [value |-> parsed.val, via |-> "strict"]
             ELSE [value |-> EmptyArray, via |-> "noMatch"]

\* The same for the Twitter output and `twitterInsights`.
ParseTwitter(finalOutput) ==
    IF ~HasOutput(finalOutput)
    THEN [value |-> EmptyArray, via |-> "initial"]
    ELSE LET cleanJson == Trim(StripFences(finalOutput))
             parsed == JSONparse(cleanJson)
         IN  IF parsed.ok /\ ~LengthThrows(parsed.val)
             THEN [value |-> parsed.val, via |-> "strict"]
             ELSE LET match == RegexMatch(finalOutput)
                      again == JSONparse(match.span)
                  IN  IF match.found
                      THEN IF again.ok /\ ~LengthThrows(again.val)
                           THEN [value |-> again.val, via |-> "fallback"]
                           ELSE [value |-> EmptyArray,
                                 via |-> "fallbackFailed"]
                      ELSE [value |-> EmptyArray, via |-> "noMatch"]

(***************************************************************************)
(* runResearchStage                                                        *)
(***************************************************************************)

\* The outputs the three agent runs are given in SpecResearch: none, the
\* empty string, arrays plain and fenced, JSON that is not an array, prose
\* around an array, prose alone, an array followed by a stray bracket.
SampleOutputs ==
    { Null, <<>>,
      <<"[", "]">>, <<"[", "1", ",", "1", "]">>,
      <<"F", "j", " ", "[", "1", "]", " ", "F">>,
      <<"1">>, <<"n">>,
      <<"j", " ", "[", "1", "]", " ", "j">>,
      <<"j", " ", "j">>,
      <<"[", "1", "]", " ", "j", "]">>,
      <<"j", "[", "j", "]">> }

TrendOutputs == {Undefined, "", "Trends data"}

NoResearchData == [returned |-> FALSE, videos |-> <<>>,
                   rawTranscripts |-> Undefined, trends |-> Undefined,
                   twitterInsights |-> <<>>]

InitResearch ==
    /\ rpc = "start"
    /\ ytResult = Null
    /\ trendResult = Undefined
    /\ twitterResult = Null
    /\ videos = EmptyArray
    /\ videosVia = "initial"
    /\ twitterInsights = EmptyArray
    /\ twitterVia = "initial"
    /\ parsedStreams = {}
    /\ researchData = NoResearchData

\* The stage is called: createToolkitSession for YouTube.
StartResearch ==
    /\ rpc = "start"
    /\ rpc' = "awaitYtSession"
    /\ UNCHANGED <<ytResult, trendResult, twitterResult, videos, videosVia,
                   twitterInsights, twitterVia, parsedStreams,
                   researchData>>
    /\ UNCHANGED nonResearchVars

\* A session is created: the agent of that step is run.
SessionResolved ==
    /\ rpc \in {"awaitYtSession", "awaitExaSession", "awaitTwitterSession"}
    /\ rpc' = CASE rpc = "awaitYtSession" -> "awaitYtRun"
                [] rpc = "awaitExaSession" -> "awaitTrendRun"
                [] rpc = "awaitTwitterSession" -> "awaitTwitterRun"
    /\ UNCHANGED <<ytResult, trendResult, twitterResult, videos, videosVia,
                   twitterInsights, twitterVia, parsedStreams,
                   researchData>>
    /\ UNCHANGED nonResearchVars

\* A session creation or an agent run rejects: so does the stage.
AwaitRejected ==
    /\ rpc \in {"awaitYtSession", "awaitExaSession", "awaitTwitterSession",
                "awaitYtRun", "awaitTrendRun", "awaitTwitterRun"}
    /\ rpc' = "rejected"
    /\ UNCHANGED <<ytResult, trendResult, twitterResult, videos, videosVia,
                   twitterInsights, twitterVia, parsedStreams,
                   researchData>>
    /\ UNCHANGED nonResearchVars

\* The YouTube run resolves: its output is parsed into `videos`, and the
\* session for Exa is asked for.
YtRunResolved ==
    /\ rpc = "awaitYtRun"
    /\ \E out \in SampleOutputs :
        /\ ytResult' = out
        /\ videos' = ParseVideos(out).value
        /\ videosVia' = ParseVideos(out).via
    /\ parsedStreams' = parsedStreams \cup {"youtube"}
    /\ rpc' = "awaitExaSession"
    /\ UNCHANGED <<trendResult, twitterResult, twitterInsights, twitterVia,
                   researchData>>
    /\ UNCHANGED nonResearchVars

\* The trend run resolves: the session for Twitter is asked for.
TrendRunResolved ==
    /\ rpc = "awaitTrendRun"
    /\ \E out \in TrendOutputs : trendResult' = out
    /\ rpc' = "awaitTwitterSession"
    /\ UNCHANGED <<ytResult, twitterResult, videos, videosVia,
                   twitterInsights, twitterVia, parsedStreams,
                   researchData>>
    /\ UNCHANGED nonResearchVars

\* trendResult.finalOutput ?? "No trends found."
TrendsOf(finalOutput) ==
    IF finalOutput = Undefined THEN "No trends found." ELSE finalOutput

\* The Twitter run resolves: its output is parsed into `twitterInsights`
\* and the combined research data is returned.
TwitterRunResolved ==
    /\ rpc = "awaitTwitterRun"
    /\ \E out \in SampleOutputs :
        /\ twitterResult' = out
        /\ twitterInsights' = ParseTwitter(out).value
        /\ twitterVia' = ParseTwitter(out).via
        /\ researchData' =
             [returned |-> TRUE,
              videos |-> videos,
              rawTranscripts |->
                  "Transcription disabled (Apify commented out).",
              trends |-> TrendsOf(trendResult),
              twitterInsights |-> ParseTwitter(out).value]
    /\ parsedStreams' = parsedStreams \cup {"twitter"}
    /\ rpc' = "returned"
    /\ UNCHANGED <<ytResult, trendResult, videos, videosVia>>
    /\ UNCHANGED nonResearchVars

NextResearch ==
    \/ StartResearch
    \/ SessionResolved
    \/ AwaitRejected
    \/ YtRunResolved
    \/ TrendRunResolved
    \/ TwitterRunResolved

(***************************************************************************)
(* The parse of one model output, as either stream does it: the output is  *)
(* drawn from all the texts of at most MaxLen tokens, and from none.       *)
(***************************************************************************)

InitParse ==
    /\ rpc = "parse"
    /\ \E out \in Texts(MaxLen) \cup {Null} :
        ytResult = out /\ twitterResult = out
    /\ trendResult = Undefined
    /\ videos = EmptyArray
    /\ videosVia = "initial"
    /\ twitterInsights = EmptyArray
    /\ twitterVia = "initial"
    /\ parsedStreams = {}
    /\ researchData = NoResearchData

\* Lines 48-74 applied to the output.
ParseYouTubeOutput ==
    /\ rpc = "parse"
    /\ "youtube" \notin parsedStreams
    /\ videos' = ParseVideos(ytResult).value
    /\ videosVia' = ParseVideos(ytResult).via
    /\ parsedStreams' = parsedStreams \cup {"youtube"}
    /\ UNCHANGED <<rpc, ytResult, trendResult, twitterResult,
                   twitterInsights, twitterVia, researchData>>
    /\ UNCHANGED nonResearchVars

\* Lines 178-207 applied to the output.
ParseTwitterOutput ==
    /\ rpc = "parse"
    /\ "twitter" \notin parsedStreams
    /\ twitterInsights' = ParseTwitter(twitterResult).value
    /\ twitterVia' = ParseTwitter(twitterResult).via
    /\ parsedStreams' = parsedStreams \cup {"twitter"}
    /\ UNCHANGED <<rpc, ytResult, trendResult, twitterResult, videos,
                   videosVia, researchData>>
    /\ UNCHANGED nonResearchVars

NextParse ==
    \/ ParseYouTubeOutput
    \/ ParseTwitterOutput

(***************************************************************************)
(* runAudioStage (src/agents/audio.ts).  The output of the model is a      *)
(* sequence of tokens: a scheme, a piece of a URL, a blank, a closing      *)
(* parenthesis, the middle of a markdown link, a word.  Every token but    *)
(* the blank and ")" is made of characters of the class [^\s\)].           *)
(***************************************************************************)

MaxAudioLen == 4

Schemes == {"https://", "http://"}

AuthHost == "connect.composio.dev"

AudioAlphabet ==
    Schemes \cup {"cdn.io/a.mp3", AuthHost, "connect.io/a.mp3", " ", ")",
                  "](", "Here"}

AudioTexts(n) == UNION {[1..k -> AudioAlphabet] : k \in 0..n}

\* Outputs longer than MaxAudioLen: a markdown link, a markdown link whose
\* text is the URL, two URLs in a sentence, an audio URL before an
\* authentication link, an authentication link in a sentence.
LongAudioOutputs ==
    { <<"Here", "](", "https://", "cdn.io/a.mp3", ")">>,
      <<"https://", "cdn.io/a.mp3", "](", "https://", "cdn.io/a.mp3", ")">>,
      <<"Here", " ", "https://", "cdn.io/a.mp3", " ", "Here", " ",
        "http://", "connect.io/a.mp3">>,
      <<"https://", "cdn.io/a.mp3", " ", "https://", AuthHost>>,
      <<"Here", " ", "https://", AuthHost, " ", "Here">> }

AudioOutputs == AudioTexts(MaxAudioLen) \cup LongAudioOutputs \cup {Null}

\* String.prototype.match found nothing (null).
NoMatch == <<"<no match>">>

\* The class [^\s\)].
UrlChar(c) == c \notin {" ", ")"}

\* The last position of the run of [^\s\)] that holds position i.
RECURSIVE RunEnd(_, _)
RunEnd(t, i) ==
    IF i < Len(t) /\ UrlChar(t[i + 1]) THEN RunEnd(t, i + 1) ELSE i

\* The positions where /https?:\/\/[^\s\)]+/ matches.
MatchStarts(t) ==
    {i \in 1..(Len(t) - 1) : t[i] \in Schemes /\ UrlChar(t[i + 1])}

\* rawOutput.match(/https?:\/\/[^\s\)]+/): the leftmost match, as long as
\* it can be.
UrlMatch(t) ==
    IF MatchStarts(t) = {} THEN NoMatch
    ELSE LET i == Min(MatchStarts(t)) IN SubSeq(t, i, RunEnd(t, i + 1))

\* urlMatch[0].includes(s)
Includes(m, s) == \E i \in 1..Len(m) : m[i] = s

AuthPending ==
    "elevenlabs authentication pending. Please authenticate using the link above and restart."

\* Lines 55-79: what the stage does with the output of the run.
AudioStage(finalOutput) ==
    LET raw == IF finalOutput = Null THEN <<>> ELSE finalOutput
        m == UrlMatch(raw)
    IN  [rawOutput |-> raw,
         urlMatch |-> m,
         raised |-> m /= NoMatch /\ Includes(m, AuthHost),
         value |-> IF m /= NoMatch THEN m ELSE raw]

NotReturned == <<"<not returned>">>

InitAudio ==
    /\ apc = "start"
    /\ rawOutput = <<>>
    /\ urlMatch = NoMatch
    /\ audioReturn = NotReturned
    /\ audioError = Undefined

\* runAudioStage(scriptText) up to `await createToolkitSession(...)`.
StartAudio ==
    /\ apc = "start"
    /\ apc' = "awaitSession"
    /\ UNCHANGED <<rawOutput, urlMatch, audioReturn, audioError>>
    /\ UNCHANGED nonAudioVars

\* The session is there: the agent is built and run.
AudioSessionResolved ==
    /\ apc = "awaitSession"
    /\ apc' = "awaitRun"
    /\ UNCHANGED <<rawOutput, urlMatch, audioReturn, audioError>>
    /\ UNCHANGED nonAudioVars

\* createToolkitSession or run rejects: the stage rejects with that error.
AudioAwaitRejected ==
    /\ apc \in {"awaitSession", "awaitRun"}
    /\ apc' = "raised"
    /\ audioError' = "Network error"
    /\ UNCHANGED <<rawOutput, urlMatch, audioReturn>>
    /\ UNCHANGED nonAudioVars

\* The run resolves: lines 55-79.
AudioRunResolved ==
    /\ apc = "awaitRun"
    /\ \E out \in AudioOutputs :
        LET r == AudioStage(out) IN
        /\ rawOutput' = r.rawOutput
        /\ urlMatch' = r.urlMatch
        /\ IF r.raised
           THEN /\ apc' = "raised"
                /\ audioError' = AuthPending
                /\ UNCHANGED audioReturn
           ELSE /\ apc' = "returned"
                /\ audioReturn' = r.value
                /\ UNCHANGED audioError
    /\ UNCHANGED nonAudioVars

NextAudio ==
    \/ StartAudio
    \/ AudioSessionResolved
    \/ AudioAwaitRejected
    \/ AudioRunResolved

(***************************************************************************)
(* runScriptingStage (src/nodes/scripting.ts).  The prompt is kept as the  *)
(* sequence of its parts; the output of the model is a sequence of tokens: *)
(* a code fence, the language tag "text", the word "Error:", another word, *)
(* a blank.                                                                *)
(***************************************************************************)

MaxScriptLen == 3

ScriptAlphabet == {"<fence>", "text", "Error:", "Hi", " "}

ScriptOutputs ==
    UNION {[1..k -> ScriptAlphabet] : k \in 0..MaxScriptLen} \cup {Null}

\* state.feedback: absent, empty, or what the reviewer typed.
Feedbacks == {"Make the hook punchier", "Shorter"}

\* What the user types at "What should be changed?": nothing, or a text.
FeedbackEntries == {"", "Shorter"}

\* human_review.ts line 39.
DefaultFeedback == "Make the hook punchier"

\* The input prompt without its default: an empty entry is the answer.
InputAnswer_NoDefault(entered, default) == entered

\* The answer of an input prompt that has a default: the default when
\* nothing was entered, the text entered otherwise.
InputAnswer(entered, default) == IF entered = "" THEN default ELSE entered

\* state.researchData: absent, the declared shape, or with a `videos` that
\* is no array (a number).
ResearchShapes == {"arrays", "videosNumber"}

RegenerationTask == "TASK: The previous script was rejected."

FirstRunTask ==
    "TASK: Write a cohesive, viral script based on the Source Material."

\* The test `if (state.feedback)` with `!== undefined` in its place.
TaskInstruction_DefinedOnly(feedback) ==
    IF Truthy_DefinedOnly(feedback)
    THEN <<RegenerationTask, "Feedback: ", feedback, "REQUIREMENT">>
    ELSE <<FirstRunTask>>

\* Lines 79-100.
TaskInstruction(feedback) ==
    IF Truthy(feedback)
    THEN <<RegenerationTask, "Feedback: ", feedback, "REQUIREMENT">>
    ELSE <<FirstRunTask>>

\* Lines 103-109.
FullPrompt(feedback) ==
    <<"SOURCE MATERIAL", "STRICT WRITING RULES">> \o TaskInstruction(feedback)

\* Lines 119-122: a leading fence with its language tag and a trailing
\* fence are taken off, then the white space at both ends.
CleanOutput(out) ==
    LET a == IF out /= <<>> /\ out[1] = "<fence>"
             THEN IF Len(out) >= 2 /\ out[2] = "text"
                  THEN SubSeq(out, 3, Len(out))
                  ELSE Tail(out)
             ELSE out
        b == IF a /= <<>> /\ a[Len(a)] = "<fence>"
             THEN SubSeq(a, 1, Len(a) - 1)
             ELSE a
    IN  Trim(b)

NoPrompt == <<>>

InitScripting ==
    /\ spc = "start"
    /\ sResearchData = Undefined
    /\ sFeedback = Undefined
    /\ taskInstruction = <<>>
    /\ fullPrompt = NoPrompt
    /\ cleanOutput = NotReturned
    /\ scriptError = Undefined

\* runScriptingStage(state) up to `await run(agent, fullPrompt)`.
StartScripting ==
    /\ spc = "start"
    /\ \E rd \in ResearchShapes \cup {Undefined},
          fb \in Feedbacks \cup {Undefined, ""} :
        /\ sResearchData' = rd
        /\ sFeedback' = fb
        /\ IF rd = Undefined
           THEN /\ spc' = "raised"
                /\ scriptError' = "Research data is missing!"
                /\ UNCHANGED <<taskInstruction, fullPrompt>>
           ELSE IF rd = "videosNumber"
           THEN /\ spc' = "raised"
                /\ scriptError' = "TypeError: slice is not a function"
                /\ UNCHANGED <<taskInstruction, fullPrompt>>
           ELSE /\ spc' = "awaitRun"
                /\ taskInstruction' = TaskInstruction(fb)
                /\ fullPrompt' = FullPrompt(fb)
                /\ UNCHANGED scriptError
    /\ UNCHANGED cleanOutput
    /\ UNCHANGED nonScriptingVars

\* The run resolves: lines 113-124.
ScriptRunResolved ==
    /\ spc = "awaitRun"
    /\ \E out \in ScriptOutputs :
        IF ~HasOutput(out)
        THEN /\ spc' = "raised"
             /\ scriptError' =
                    "Viral Scriptwriter failed to generate a response."
             /\ UNCHANGED cleanOutput
        ELSE /\ spc' = "returned"
             /\ cleanOutput' = CleanOutput(out)
             /\ UNCHANGED scriptError
    /\ UNCHANGED <<sResearchData, sFeedback, taskInstruction, fullPrompt>>
    /\ UNCHANGED nonScriptingVars

\* The run rejects.
ScriptRunRejected ==
    /\ spc = "awaitRun"
    /\ spc' = "raised"
    /\ scriptError' = "Network error"
    /\ UNCHANGED <<sResearchData, sFeedback, taskInstruction, fullPrompt,
                   cleanOutput>>
    /\ UNCHANGED nonScriptingVars

NextScripting ==
    \/ StartScripting
    \/ ScriptRunResolved
    \/ ScriptRunRejected

(***************************************************************************)
(* main (src/index.ts, the variant with the video stage).  A stage is one  *)
(* await of main: it resolves with a value or rejects.  What the audio and *)
(* scripting stages make of a model output is AudioStage and CleanOutput   *)
(* above; runHumanReviewNode (src/agents/human_review.ts) is part of the   *)
(* steps of main, with one await for each of its two prompts.              *)
(***************************************************************************)

\* The scripting runs after which the model stops the loop of main.
MaxScriptingRuns == 3

MainAudioOutputs ==
    { Null, <<"Here">>, <<"https://", "cdn.io/a.mp3">>,
      <<"Here", " ", "https://", "cdn.io/a.mp3">>, <<"https://", AuthHost>> }

NoCalls ==
    [research |-> 0, scripting |-> 0, review |-> 0, audio |-> 0, video |-> 0]

InitialState ==
    [topic |-> "AI Agents in 2025", researchData |-> Undefined,
     script |-> Null, feedback |-> Undefined, audioUrl |-> Null]

NoReview == [approved |-> FALSE, feedback |-> Undefined]

InitMain ==
    /\ mpc = "start"
    /\ state = InitialState
    /\ scriptApproved = FALSE
    /\ reviewResult = NoReview
    /\ mTask = <<>>
    /\ runFeedback = Undefined
    /\ calls = NoCalls
    /\ returns = NoCalls
    /\ approvals = 0
    /\ rejections = 0
    /\ prompts = 0
    /\ reviewArg = Null
    /\ approvedScript = Null
    /\ audioArg = Null
    /\ videoArg = Null
    /\ failedIn = Undefined

\* The video stage called whatever the audio stage returned.
HasAudioUrl_Always(audioUrl) == TRUE

\* `if (state.audioUrl)`: the audio stage returned a non-empty string.
HasAudioUrl(audioUrl) == audioUrl /= <<>>

\* The error of a stage leaving main: the promise of main rejects.
Catch_Rethrow(at) ==
    /\ mpc' = "rejected"
    /\ failedIn' = at

\* The catch of main, entered from the await `at`: the error is logged as
\* "Pipeline Failed" and main ends.
Catch(at) ==
    /\ mpc' = "failed"
    /\ failedIn' = at

\* human_review.ts without line 8: every script is put to the user.
InvalidScript_Never(script) == FALSE

\* human_review.ts line 8 without the test for "Error:".
InvalidScript_EmptyOnly(script) == ~HasOutput(script)

\* human_review.ts line 8: !script || script.startsWith("Error:").
InvalidScript(script) == ~HasOutput(script) \/ script[1] = "Error:"

\* human_review.ts line 10.
ReviewFailed == [approved |-> FALSE, feedback |-> "Script generation failed."]

\* The loop left after any review.
Approved_Always(rr) == TRUE

\* `if (reviewResult.approved)`.
Approved(rr) == rr.approved

\* The feedback of the review thrown away.
NextFeedback_Dropped(rr) == Undefined

\* state.feedback after the review: lines 43 and 46 of main.
NextFeedback(rr) == IF rr.approved THEN Undefined ELSE rr.feedback

\* `await runScriptingStage(state)`: the call, up to its await of the run.
\* A `videos` that is no array has no slice method.
ScriptingCall(st, c) ==
    /\ state' = st
    /\ calls' = [c EXCEPT !.scripting = @ + 1]
    /\ runFeedback' = st.feedback
    /\ IF st.researchData = "videosNumber"
       THEN /\ Catch("awaitScript")
            /\ UNCHANGED mTask
       ELSE /\ mpc' = "awaitScript"
            /\ mTask' = TaskInstruction(st.feedback)
            /\ UNCHANGED failedIn

\* Lines 40-66 of main: from the result rr of the review of st.script to
\* the next await, with c and r the calls and returns up to the review.
AfterReview(rr, st, c, r) ==
    LET st2 == [st EXCEPT !.feedback = NextFeedback(rr)] IN
    /\ reviewResult' = rr
    /\ returns' = [r EXCEPT !.review = @ + 1]
    /\ approvals' = IF rr.approved THEN approvals + 1 ELSE approvals
    /\ rejections' = IF rr.approved THEN rejections ELSE rejections + 1
    /\ approvedScript' = IF rr.approved THEN st.script ELSE approvedScript
    /\ IF Approved(rr)
       THEN /\ scriptApproved' = TRUE
            /\ state' = st2
            /\ UNCHANGED <<mTask, runFeedback, failedIn>>
            /\ IF HasOutput(st2.script)
               THEN /\ audioArg' = st2.script
                    /\ calls' = [c EXCEPT !.audio = @ + 1]
                    /\ mpc' = "awaitAudio"
               ELSE /\ calls' = c
                    /\ mpc' = "done"
                    /\ UNCHANGED audioArg
       ELSE /\ c.scripting < MaxScriptingRuns
            /\ UNCHANGED <<scriptApproved, audioArg>>
            /\ ScriptingCall(st2, c)

\* main up to `await runResearchStage(TOPIC)`.
MainStart ==
    /\ mpc = "start"
    /\ mpc' = "awaitResearch"
    /\ calls' = [calls EXCEPT !.research = @ + 1]
    /\ UNCHANGED <<state, scriptApproved, reviewResult, mTask, runFeedback,
                   returns, approvals, rejections, prompts, reviewArg,
                   approvedScript, audioArg, videoArg, failedIn>>
    /\ UNCHANGED nonMainVars

\* The research stage returned: the loop is entered.
MainResearchResolved ==
    /\ mpc = "awaitResearch"
    /\ \E rd \in ResearchShapes :
        ScriptingCall([state EXCEPT !.researchData = rd], calls)
    /\ returns' = [returns EXCEPT !.research = @ + 1]
    /\ UNCHANGED <<scriptApproved, reviewResult, approvals, rejections,
                   prompts, reviewArg, approvedScript, audioArg, videoArg>>
    /\ UNCHANGED nonMainVars

\* The run of the scripting stage resolved: the stage raises or returns
\* the cleaned script, and the review of it starts.  An invalid script is
\* turned down at once; any other is shown with the approval request.
MainScriptResolved ==
    /\ mpc = "awaitScript"
    /\ \E out \in ScriptOutputs :
        IF ~HasOutput(out)
        THEN /\ Catch("awaitScript")
             /\ UNCHANGED <<state, scriptApproved, reviewResult, mTask,
                            runFeedback, calls, returns, approvals,
                            rejections, prompts, reviewArg, approvedScript,
                            audioArg>>
        ELSE LET script == CleanOutput(out)
                 st == [state EXCEPT !.script = script]
                 c == [calls EXCEPT !.review = @ + 1]
                 r == [returns EXCEPT !.scripting = @ + 1]
             IN  /\ reviewArg' = script
                 /\ IF InvalidScript(script)
                    THEN /\ AfterReview(ReviewFailed, st, c, r)
                         /\ UNCHANGED prompts
                    ELSE /\ prompts' = prompts + 1
                         /\ mpc' = "awaitConfirm"
                         /\ state' = st
                         /\ calls' = c
                         /\ returns' = r
                         /\ UNCHANGED <<scriptApproved, reviewResult, mTask,
                                        runFeedback, approvals, rejections,
                                        approvedScript, audioArg, failedIn>>
    /\ UNCHANGED videoArg
    /\ UNCHANGED nonMainVars

\* The user answered "Is this script good enough?".
MainConfirmAnswered ==
    /\ mpc = "awaitConfirm"
    /\ \E isApproved \in BOOLEAN :
        IF isApproved
        THEN AfterReview([approved |-> TRUE, feedback |-> Undefined],
                         state, calls, returns)
        ELSE /\ mpc' = "awaitFeedback"
             /\ UNCHANGED <<state, scriptApproved, reviewResult, mTask,
                            runFeedback, calls, returns, approvals,
                            rejections, approvedScript, audioArg, failedIn>>
    /\ UNCHANGED <<prompts, reviewArg, videoArg>>
    /\ UNCHANGED nonMainVars

\* The user answered "What should be changed?".
MainFeedbackAnswered ==
    /\ mpc = "awaitFeedback"
    /\ \E entered \in FeedbackEntries :
        AfterReview([approved |-> FALSE,
                     feedback |-> InputAnswer(entered, DefaultFeedback)],
                    state, calls, returns)
    /\ UNCHANGED <<prompts, reviewArg, videoArg>>
    /\ UNCHANGED nonMainVars

\* The run of the audio stage resolved: the stage raises or returns, and
\* the video stage is called with what it returned, if that is not empty.
MainAudioResolved ==
    /\ mpc = "awaitAudio"
    /\ \E out \in MainAudioOutputs :
        LET a == AudioStage(out) IN
        IF a.raised
        THEN /\ Catch("awaitAudio")
             /\ UNCHANGED <<state, calls, returns, videoArg>>
        ELSE /\ state' = [state EXCEPT !.audioUrl = a.value]
             /\ returns' = [returns EXCEPT !.audio = @ + 1]
             /\ UNCHANGED failedIn
             /\ IF HasAudioUrl(a.value)
                THEN /\ videoArg' = a.value
                     /\ calls' = [calls EXCEPT !.video = @ + 1]
                     /\ mpc' = "awaitVideo"
                ELSE /\ mpc' = "done"
                     /\ UNCHANGED <<calls, videoArg>>
    /\ UNCHANGED <<scriptApproved, reviewResult, mTask, runFeedback,
                   approvals, rejections, prompts, reviewArg,
                   approvedScript, audioArg>>
    /\ UNCHANGED nonMainVars

\* The video stage returned.
MainVideoResolved ==
    /\ mpc = "awaitVideo"
    /\ mpc' = "done"
    /\ returns' = [returns EXCEPT !.video = @ + 1]
    /\ UNCHANGED <<state, scriptApproved, reviewResult, mTask, runFeedback,
                   calls, approvals, rejections, prompts, reviewArg,
                   approvedScript, audioArg, videoArg, failedIn>>
    /\ UNCHANGED nonMainVars

\* What main awaits rejects: the catch logs "Pipeline Failed".
MainAwaitRejected ==
    /\ mpc \in {"awaitResearch", "awaitScript", "awaitConfirm",
                "awaitFeedback", "awaitAudio", "awaitVideo"}
    /\ Catch(mpc)
    /\ UNCHANGED <<state, scriptApproved, reviewResult, mTask, runFeedback,
                   calls, returns, approvals, rejections, prompts,
                   reviewArg, approvedScript, audioArg, videoArg>>
    /\ UNCHANGED nonMainVars

NextMain ==
    \/ MainStart
    \/ MainResearchResolved
    \/ MainScriptResolved
    \/ MainConfirmAnswered
    \/ MainFeedbackAnswered
    \/ MainAudioResolved
    \/ MainVideoResolved
    \/ MainAwaitRejected

(***************************************************************************)
(* Two calls of runVideoGenerationStage at once, as Promise.all makes      *)
(* them: each call is the sequence of awaits of SpecVideo, and the two     *)
(* share the clock that downloadVideo reads.  The responses carry no more  *)
(* than the stage needs to get to the download.                            *)
(***************************************************************************)

Runs == {1, 2}

\* The readings of the clock, in milliseconds from the first.
MaxClock == 2

\* The non-terminal status responses a call is given.
MaxConcurrentPolls == 2

\* Lines 135-138: the file of a download started at reading ts.
OutputPathAt(ts) == "Downloads/heygen_video_" \o ToString(ts) \o ".mp4"

NotStarted ==
    [pc |-> "start", attempts |-> 0, outputPath |-> Undefined,
     savedPath |-> Undefined]

InitConcurrent ==
    /\ now = 0
    /\ runs = [r \in Runs |-> NotStarted]

\* A millisecond passes.
ClockTick ==
    /\ now < MaxClock
    /\ now' = now + 1
    /\ UNCHANGED runs
    /\ UNCHANGED nonConcurrentVars

\* A call starts, up to its first await.
ConcurrentStart ==
    /\ \E r \in Runs :
        /\ runs[r].pc = "start"
        /\ runs' = [runs EXCEPT ![r].pc = "awaitConnection"]
    /\ UNCHANGED now
    /\ UNCHANGED nonConcurrentVars

\* The connection lookup, then the generation request, resolve.
ConcurrentSetupResolved ==
    /\ \E r \in Runs :
        \/ /\ runs[r].pc = "awaitConnection"
           /\ runs' = [runs EXCEPT ![r].pc = "awaitGenerate"]
        \/ /\ runs[r].pc = "awaitGenerate"
           /\ runs' = [runs EXCEPT ![r].pc = "awaitStatus"]
    /\ UNCHANGED now
    /\ UNCHANGED nonConcurrentVars

\* A status query resolves.  On "completed" downloadVideo is called and
\* reads the clock for the name of its file.
ConcurrentStatusResolved ==
    /\ \E r \in Runs, s \in {"completed", "failed", "processing"} :
        /\ runs[r].pc = "awaitStatus"
        /\ IF Classify(s) = "completed"
           THEN runs' = [runs EXCEPT ![r].pc = "awaitDownload",
                                     ![r].outputPath = OutputPathAt(now)]
           ELSE IF Classify(s) = "failed"
           THEN runs' = [runs EXCEPT ![r].pc = "raised"]
           ELSE /\ runs[r].attempts < MaxConcurrentPolls
                /\ runs' = [runs EXCEPT ![r].pc = "awaitTimer",
                                        ![r].attempts = @ + 1]
    /\ UNCHANGED now
    /\ UNCHANGED nonConcurrentVars

\* The timer of a call fires: its next status query is sent.
ConcurrentTimerFired ==
    /\ \E r \in Runs :
        /\ runs[r].pc = "awaitTimer"
        /\ runs' = [runs EXCEPT ![r].pc = "awaitStatus"]
    /\ UNCHANGED now
    /\ UNCHANGED nonConcurrentVars

\* The response to a download comes.
ConcurrentDownloadResponse ==
    /\ \E r \in Runs, code \in DownloadStatusCodes :
        /\ runs[r].pc = "awaitDownload"
        /\ IF ResponseOk(code)
           THEN runs' = [runs EXCEPT ![r].pc = "awaitFinish"]
           ELSE runs' = [runs EXCEPT ![r].pc = "raised"]
    /\ UNCHANGED now
    /\ UNCHANGED nonConcurrentVars

\* The file of a download emits "finish": the call returns.
ConcurrentFileFinished ==
    /\ \E r \in Runs :
        /\ runs[r].pc = "awaitFinish"
        /\ runs' = [runs EXCEPT ![r].pc = "returned",
                                ![r].savedPath = runs[r].outputPath]
    /\ UNCHANGED now
    /\ UNCHANGED nonConcurrentVars

\* What a call awaits rejects.
ConcurrentAwaitRejected ==
    /\ \E r \in Runs :
        /\ runs[r].pc \in {"awaitConnection", "awaitGenerate", "awaitStatus",
                           "awaitDownload"}
        /\ runs' = [runs EXCEPT ![r].pc = "raised"]
    /\ UNCHANGED now
    /\ UNCHANGED nonConcurrentVars

NextConcurrent ==
    \/ ClockTick
    \/ ConcurrentStart
    \/ ConcurrentSetupResolved
    \/ ConcurrentStatusResolved
    \/ ConcurrentTimerFired
    \/ ConcurrentDownloadResponse
    \/ ConcurrentFileFinished
    \/ ConcurrentAwaitRejected

(***************************************************************************)
(* The specifications.  A stage that a specification does not run stays    *)
(* in its initial state.                                                   *)
(***************************************************************************)

(***************************************************************************)
(* The interactive CLI: the App component of src/cli/app.tsx.  Its state   *)
(* is step, topic, script, feedback and error; an effect with the          *)
(* dependencies [step, topic, script, feedback] runs executeStep() after   *)
(* every render that changed one of them, when step is a processing step.  *)
(* The workflow functions are awaited: each call is pending until it       *)
(* resolves or rejects.  Whether the two state updates that follow an      *)
(* await are rendered together or one by one is decided by the renderer,   *)
(* not by this code: `batched` is chosen at the start and never changes.   *)
(***************************************************************************)
ProcessingSteps == {"research", "generate", "voiceover", "video"}

Topics == {"AI Agents", "Rust"}
GeneratedScripts == {"script A", "script B"}
CliFeedbacks == {"", "Make it shorter"}

NoPending == [fn \in ProcessingSteps |-> 0]

\* The App as first rendered, with `b` as the renderer's way of applying
\* updates.
AppMounted(b) ==
    /\ batched = b
    /\ step = "input"
    /\ topic = ""
    /\ appScript = ""
    /\ appFeedback = ""
    /\ cliError = Null
    /\ pending = NoPending
    /\ invoked = NoPending
    /\ stepsTaken = {}
    /\ errored = FALSE
    /\ invokedAfterError = FALSE
    /\ exitCalled = FALSE

InitCli == AppMounted(TRUE)

\* The step executeStep() moves to when the awaited call of `fn` resolved.
StepAfter(fn) ==
    CASE fn = "research" -> "generate"
      [] fn = "generate" -> "review"
      [] fn = "voiceover" -> "video"
      [] fn = "video" -> "done"

\* The effect, run with `st` as the step of its render: executeStep() is
\* called for a processing step only, and calls that step's workflow
\* function.  `p` counts the calls by function before it.
EffectRuns(st) == st \in ProcessingSteps

AfterEffect(st, p) ==
    IF EffectRuns(st) THEN [p EXCEPT ![st] = @ + 1] ELSE p

\* The effect, run with `st` as the step of its render, calls exit():
\* `case 'done'` is a case of executeStep(), which the effect calls for a
\* processing step only.
ExitAfter(st) == EffectRuns(st) /\ st = "done"

\* setStep(to) by `cause`, from the step `from`: nothing is rendered when
\* the step does not change.
StepsAfter(from, to, cause) ==
    IF from = to THEN stepsTaken
    ELSE stepsTaken \cup {<<from, to, cause>>}

\* handleTopicSubmit: setTopic(value); setStep('research').  The form is
\* rendered at the step 'input' only.  The render with the new step runs
\* the effect, which calls runWorkflow.research(topic).
TopicSubmit ==
    /\ step = "input"
    /\ \E value \in Topics :
        /\ topic' = value
        /\ step' = "research"
        /\ pending' = AfterEffect("research", pending)
        /\ invoked' = AfterEffect("research", invoked)
        /\ stepsTaken' = StepsAfter(step, "research", "submit")
    /\ UNCHANGED <<batched, appScript, appFeedback, cliError, errored,
                   invokedAfterError, exitCalled>>
    /\ UNCHANGED nonCliVars

\* handleFeedbackSubmit: setFeedback(value); setStep('voiceover').  The
\* review is rendered at the step 'review' only.
FeedbackSubmit ==
    /\ step = "review"
    /\ \E value \in CliFeedbacks :
        /\ appFeedback' = value
        /\ step' = "voiceover"
        /\ pending' = AfterEffect("voiceover", pending)
        /\ invoked' = AfterEffect("voiceover", invoked)
        /\ stepsTaken' = StepsAfter(step, "voiceover", "submit")
        /\ invokedAfterError' = (invokedAfterError \/ errored)
    /\ UNCHANGED <<batched, topic, appScript, cliError, errored,
                   exitCalled>>
    /\ UNCHANGED nonCliVars

\* The awaited call of research, produceVoiceover or produceVideo
\* resolves: setStep(next step).  A render with a changed step runs the
\* effect.
CallResolved ==
    \E fn \in ProcessingSteps \ {"generate"} :
        /\ pending[fn] > 0
        /\ LET settled == [pending EXCEPT ![fn] = @ - 1]
               to == StepAfter(fn)
               rendered == step /= to
           IN  /\ step' = to
               /\ pending' = IF rendered THEN AfterEffect(to, settled)
                             ELSE settled
               /\ invoked' = IF rendered THEN AfterEffect(to, invoked)
                             ELSE invoked
               /\ stepsTaken' = StepsAfter(step, to, fn)
               /\ invokedAfterError' =
                    (invokedAfterError
                        \/ (errored /\ rendered /\ EffectRuns(to)))
               /\ exitCalled' = (exitCalled \/ (rendered /\ ExitAfter(to)))
        /\ UNCHANGED <<batched, topic, appScript, appFeedback, cliError,
                       errored>>
        /\ UNCHANGED nonCliVars

\* The awaited call of generateScript resolves with generatedScript:
\* setScript(generatedScript); setStep('review').  When the two updates
\* are not rendered together, the render after setScript has the new
\* script and the old step: script is a dependency of the effect, which
\* runs with that step.
GenerateScriptResolved ==
    /\ pending["generate"] > 0
    /\ \E generatedScript \in GeneratedScripts :
        LET settled == [pending EXCEPT !["generate"] = @ - 1]
            scriptRender == ~batched /\ generatedScript /= appScript
        IN  /\ appScript' = generatedScript
            /\ step' = "review"
            /\ pending' = IF scriptRender THEN AfterEffect(step, settled)
                          ELSE settled
            /\ invoked' = IF scriptRender THEN AfterEffect(step, invoked)
                          ELSE invoked
            /\ stepsTaken' = StepsAfter(step, "review", "generate")
            /\ invokedAfterError' =
                 (invokedAfterError
                     \/ (errored /\ scriptRender /\ EffectRuns(step)))
            /\ exitCalled' =
                 (exitCalled \/ (scriptRender /\ ExitAfter(step)))
    /\ UNCHANGED <<batched, topic, appFeedback, cliError, errored>>
    /\ UNCHANGED nonCliVars

\* An awaited call rejects: the catch of executeStep() does
\* setError(message); setStep('error').
CallRejected ==
    \E fn \in ProcessingSteps :
        /\ pending[fn] > 0
        /\ pending' = [pending EXCEPT ![fn] = @ - 1]
        /\ cliError' = <<"message of the error">>
        /\ step' = "error"
        /\ errored' = TRUE
        /\ stepsTaken' = StepsAfter(step, "error", fn)
        /\ UNCHANGED <<batched, topic, appScript, appFeedback, invoked,
                       invokedAfterError, exitCalled>>
        /\ UNCHANGED nonCliVars

NextCli ==
    \/ TopicSubmit
    \/ FeedbackSubmit
    \/ CallResolved
    \/ GenerateScriptResolved
    \/ CallRejected

(***************************************************************************)
(* runHumanReviewNode (src/agents/human_review.ts), called on its own with *)
(* any script: undefined (Null here), empty, or any text.  Each of its two *)
(* prompts is one await.                                                   *)
(***************************************************************************)
ReviewScripts == ScriptOutputs \cup {Null}

Unanswered == <<>>

\* The call of runHumanReviewNode(script), before its first statement.
ReviewCalled(script) ==
    /\ hpc = "start"
    /\ hScript = script
    /\ confirmAnswer = Unanswered
    /\ hResult = NoReview
    /\ hPrompts = 0

InitReview == ReviewCalled(Null)

\* The approval returned with the feedback of an earlier rejection.
ApprovedResult_KeepsFeedback ==
    [approved |-> TRUE, feedback |-> "Make the hook punchier"]

\* human_review.ts line 31.
ApprovedResult == [approved |-> TRUE, feedback |-> Undefined]

\* Lines 6-27: an invalid script is turned down at once, any other is
\* printed and the confirm prompt is made.
ReviewStart ==
    /\ hpc = "start"
    /\ IF InvalidScript(hScript)
       THEN /\ hResult' = ReviewFailed
            /\ hpc' = "returned"
            /\ UNCHANGED hPrompts
       ELSE /\ hpc' = "awaitConfirm"
            /\ hPrompts' = hPrompts + 1
            /\ UNCHANGED hResult
    /\ UNCHANGED <<hScript, confirmAnswer>>
    /\ UNCHANGED nonReviewVars

\* Lines 29-41: the confirm prompt is answered.
ReviewConfirmAnswered ==
    /\ hpc = "awaitConfirm"
    /\ \E answer \in BOOLEAN :
        /\ confirmAnswer' = <<answer>>
        /\ IF answer
           THEN /\ hResult' = ApprovedResult
                /\ hpc' = "returned"
                /\ UNCHANGED hPrompts
           ELSE /\ hpc' = "awaitFeedback"
                /\ hPrompts' = hPrompts + 1
                /\ UNCHANGED hResult
    /\ UNCHANGED hScript
    /\ UNCHANGED nonReviewVars

\* Line 42: the input prompt is answered.
ReviewFeedbackAnswered ==
    /\ hpc = "awaitFeedback"
    /\ \E entered \in FeedbackEntries :
        hResult' = [approved |-> FALSE,
                    feedback |-> InputAnswer(entered, DefaultFeedback)]
    /\ hpc' = "returned"
    /\ UNCHANGED <<hScript, confirmAnswer, hPrompts>>
    /\ UNCHANGED nonReviewVars

\* A prompt rejects (the terminal is closed): the rejection leaves
\* runHumanReviewNode, which has no catch.
ReviewPromptRejected ==
    /\ hpc \in {"awaitConfirm", "awaitFeedback"}
    /\ hpc' = "raised"
    /\ UNCHANGED <<hScript, confirmAnswer, hResult, hPrompts>>
    /\ UNCHANGED nonReviewVars

NextReview ==
    \/ ReviewStart
    \/ ReviewConfirmAnswered
    \/ ReviewFeedbackAnswered
    \/ ReviewPromptRejected

(***************************************************************************)
(* The Composio client of src/services/client.ts: the module keeps the     *)
(* client and the validated environment in composioInstance and parsedEnv, *)
(* both null at first.  process.env can change between two calls.          *)
(***************************************************************************)
MaxClientCalls == 3

ApiKeys == {Undefined, "", "key-1", "key-2"}
UserIds == {Undefined, "user-1"}
OpenAiKeys == {Undefined, "sk-1"}

Envs ==
    [COMPOSIO_API_KEY : ApiKeys, COMPOSIO_USER_ID : UserIds,
     OPENAI_API_KEY : OpenAiKeys]

\* null, for composioInstance and for parsedEnv.
NoInstance == [id |-> 0, apiKey |-> Undefined]
NoParsedEnv ==
    [COMPOSIO_API_KEY |-> Undefined, COMPOSIO_USER_ID |-> Undefined,
     OPENAI_API_KEY |-> Undefined]

NoExit == 0 - 1

\* z.string().min(1, ...): a string of at least one character.
MinOne(v) == v /= Undefined /\ v /= ""

\* envSchema.safeParse(env).success
EnvValid(env) == MinOne(env.COMPOSIO_API_KEY) /\ MinOne(env.OPENAI_API_KEY)

\* envSchema.safeParse(env).data: COMPOSIO_USER_ID has a default.
EnvData(env) ==
    [env EXCEPT !.COMPOSIO_USER_ID =
        IF @ = Undefined THEN "default-user" ELSE @]

\* The module as loaded, with env as process.env.
ClientLoaded(env) ==
    /\ processEnv = env
    /\ clientInstance = NoInstance
    /\ parsedEnv = NoParsedEnv
    /\ exitCode = NoExit
    /\ instances = {}
    /\ validations = 0
    /\ clientCalls = 0
    /\ lastClient = NoInstance
    /\ lastUserId = Undefined
    /\ storedBefore = NoInstance

InitClient ==
    ClientLoaded([COMPOSIO_API_KEY |-> "key-1", COMPOSIO_USER_ID |-> "user-1",
                  OPENAI_API_KEY |-> "sk-1"])

\* The stored client forgotten: every call validates and constructs.
Stored_Never(inst) == FALSE

\* `if (composioInstance)`
Stored(inst) == inst /= NoInstance

\* new Composio({ apiKey }): the n-th client constructed.
NewComposio(n, apiKey) == [id |-> n, apiKey |-> apiKey]

\* The body of getComposioClient(): the stored client, or validation and
\* then either process.exit(1) or a new client, which is stored.
ClientBody ==
    IF Stored(clientInstance)
    THEN /\ lastClient' = clientInstance
         /\ UNCHANGED <<clientInstance, parsedEnv, exitCode, instances,
                        validations>>
    ELSE /\ validations' = validations + 1
         /\ IF ~EnvValid(processEnv)
            THEN /\ exitCode' = 1
                 /\ UNCHANGED <<clientInstance, parsedEnv, instances,
                                lastClient>>
            ELSE LET data == EnvData(processEnv)
                     client == NewComposio(Cardinality(instances) + 1,
                                           data.COMPOSIO_API_KEY)
                 IN  /\ parsedEnv' = data
                     /\ clientInstance' = client
                     /\ instances' = instances \cup {client}
                     /\ lastClient' = client
                     /\ UNCHANGED exitCode

GetComposioClient ==
    /\ exitCode = NoExit
    /\ clientCalls < MaxClientCalls
    /\ clientCalls' = clientCalls + 1
    /\ storedBefore' = clientInstance
    /\ ClientBody
    /\ UNCHANGED <<processEnv, lastUserId>>
    /\ UNCHANGED nonClientVars

\* getComposioUserId(): validation is triggered if not done yet.
GetComposioUserId ==
    /\ exitCode = NoExit
    /\ clientCalls < MaxClientCalls
    /\ clientCalls' = clientCalls + 1
    /\ IF parsedEnv = NoParsedEnv
       THEN /\ ClientBody
            /\ lastUserId' = IF exitCode' = NoExit
                             THEN parsedEnv'.COMPOSIO_USER_ID
                             ELSE lastUserId
       ELSE /\ lastUserId' = parsedEnv.COMPOSIO_USER_ID
            /\ UNCHANGED <<clientInstance, parsedEnv, exitCode, instances,
                           validations, lastClient>>
    /\ UNCHANGED <<processEnv, storedBefore>>
    /\ UNCHANGED nonClientVars

\* process.env is changed between two calls.
EnvChanged ==
    /\ exitCode = NoExit
    /\ \E env \in Envs \ {processEnv} : processEnv' = env
    /\ UNCHANGED <<clientInstance, parsedEnv, exitCode, instances,
                   validations, clientCalls, lastClient, lastUserId,
                   storedBefore>>
    /\ UNCHANGED nonClientVars

NextClient ==
    \/ GetComposioClient
    \/ GetComposioUserId
    \/ EnvChanged

\* The stages declared after the research stage, not started.
InitLater ==
    /\ InitAudio /\ InitScripting /\ InitMain /\ InitConcurrent /\ InitCli
    /\ InitReview /\ InitClient

InitVideoRun == InitVideo /\ InitResearch /\ InitLater

SpecVideo == InitVideoRun /\ [][NextVideo]_vars

\* Every remote call, every timer and the download settle in the end: the
\* stage, suspended at an await, is resumed.
SpecVideoFair == SpecVideo /\ WF_vars(NextVideo)

\* The video stage with a write stream that may fail.
InitDownloadRun == InitVideo /\ InitResearch /\ InitLater

SpecDownload == InitDownloadRun /\ [][NextDownload]_vars

\* Every event the download waits for comes.
SpecDownloadFair == SpecDownload /\ WF_vars(NextDownload)

InitResearchRun == InitResearch /\ InitVideo /\ InitLater

SpecResearch == InitResearchRun /\ [][NextResearch]_vars

InitParseRun == InitParse /\ InitVideo /\ InitLater

SpecParse == InitParseRun /\ [][NextParse]_vars

InitAudioRun ==
    /\ InitAudio
    /\ InitVideo /\ InitResearch /\ InitScripting /\ InitMain
    /\ InitConcurrent /\ InitCli /\ InitReview /\ InitClient

SpecAudio == InitAudioRun /\ [][NextAudio]_vars

InitScriptingRun ==
    /\ InitScripting
    /\ InitVideo /\ InitResearch /\ InitAudio /\ InitMain
    /\ InitConcurrent /\ InitCli /\ InitReview /\ InitClient

SpecScripting == InitScriptingRun /\ [][NextScripting]_vars

InitMainRun ==
    /\ InitMain
    /\ InitVideo /\ InitResearch /\ InitAudio /\ InitScripting
    /\ InitConcurrent /\ InitCli /\ InitReview /\ InitClient

SpecMain == InitMainRun /\ [][NextMain]_vars

InitConcurrentRun ==
    /\ InitConcurrent
    /\ InitVideo /\ InitResearch /\ InitAudio /\ InitScripting
    /\ InitMain /\ InitCli /\ InitReview /\ InitClient

SpecConcurrent == InitConcurrentRun /\ [][NextConcurrent]_vars

\* The App under either way of applying updates.
InitCliRun ==
    /\ \E b \in BOOLEAN : AppMounted(b)
    /\ InitVideo /\ InitResearch /\ InitAudio /\ InitScripting
    /\ InitMain /\ InitConcurrent /\ InitReview /\ InitClient

SpecCli == InitCliRun /\ [][NextCli]_vars

\* Every call of the workflow settles and every form is submitted.
SpecCliFair == SpecCli /\ WF_vars(NextCli)

\* runHumanReviewNode called with any script.
InitReviewRun ==
    /\ \E script \in ReviewScripts : ReviewCalled(script)
    /\ InitVideo /\ InitResearch /\ InitAudio /\ InitScripting
    /\ InitMain /\ InitConcurrent /\ InitCli /\ InitClient

SpecReview == InitReviewRun /\ [][NextReview]_vars

\* The client module loaded under any environment.
InitClientRun ==
    /\ \E env \in Envs : ClientLoaded(env)
    /\ InitVideo /\ InitResearch /\ InitAudio /\ InitScripting
    /\ InitMain /\ InitConcurrent /\ InitCli /\ InitReview

SpecClient == InitClientRun /\ [][NextClient]_vars

(***************************************************************************)
(* Properties of runVideoGenerationStage, checked under SpecVideo.         *)
(***************************************************************************)

\* C1: the first "completed" status response ends polling: no status query
\* is sent after it, the only thing then pending is the download, and a
\* returned result carries the video_url of that same response.
C1_CompletedEndsPolling ==
    /\ status = "completed" =>
          /\ vpc \in {"awaitDownload", "awaitFinish", "returned",
                     "raised"}
          /\ terminalAt = statusReplies
          /\ statusQueries = statusReplies
          /\ downloads = 1
          /\ vpc = "raised" =>
                error[1] \in {"Failed to download video. Status: ",
                              "Network error"}
    /\ vpc = "returned" =>
          /\ status = "completed"
          /\ result.videoUrl \in VideoUrls
          /\ result.videoUrl = statusData.video_url
          /\ result.savedPath = outputPath
    /\ vpc /= "returned" => result = NoResult

C1_Witness ==
    vpc = "returned" /\ statusQueries >= 3 /\ terminalAt = statusQueries

\* C2: a "failed" status response makes the stage raise
\* "Generation Failed: <payload of that response>"; no status query follows
\* it, no download is started and nothing is returned.
C2_FailedRaises ==
    status = "failed" =>
        /\ vpc = "raised"
        /\ error = <<"Generation Failed: ", JSONstringify(statusData.error)>>
        /\ statusData.error = "quota" => error[2] = "\"quota\""
        /\ terminalAt = statusReplies
        /\ statusQueries = statusReplies
        /\ downloads = 0
        /\ result = NoResult

C2_Witness ==
    /\ status = "failed" /\ vpc = "raised" /\ statusQueries >= 2
    /\ statusData.error = "quota"

\* C3: at most 60 status queries are ever sent; once 60 status responses
\* were neither "completed" nor "failed" the stage can only wait out its
\* last timer and raise the timeout error, which names the video id, and
\* it returns nothing.
C3_BoundedPolling ==
    /\ statusQueries <= 60
    /\ attempts <= 60
    /\ (statusReplies = 60 /\ terminalAt = 0) =>
          /\ vpc \in {"awaitTimer", "raised"}
          /\ result = NoResult
          /\ vpc = "raised" =>
                /\ Len(error) = 6
                /\ error[1] = "Video generation timed out after "
                /\ error[2] = "60"
                /\ error[5] = " minutes). Video ID: "
                /\ error[6] = videoId
                /\ videoId \in VideoIds

C3_Witness ==
    /\ vpc = "raised" /\ statusReplies = 60 /\ terminalAt = 0
    /\ error[1] = "Video generation timed out after "

\* C4: a status response that is neither "completed" nor "failed" (an
\* unknown string, no status at all) makes the stage neither return nor
\* raise: it sets the timer, and when the timer fires with attempts left
\* the next status query is sent.  So the number of status queries sent
\* is the position of the first terminal response.
C4_OtherStatusContinues ==
    /\ [][(statusReplies' = statusReplies + 1
            /\ status' \notin {"completed", "failed"})
           => (/\ vpc' = "awaitTimer"
               /\ timers' = timers + 1
               /\ result' = NoResult
               /\ error' = <<>>)]_vars
    /\ [][(vpc = "awaitTimer" /\ vpc' /= "awaitTimer" /\ attempts < 60)
           => (vpc' = "awaitStatus"
               /\ statusQueries' = statusQueries + 1)]_vars
    /\ [](terminalAt /= 0 =>
            statusQueries = terminalAt /\ statusReplies = terminalAt)

C4_Witness ==
    /\ vpc = "awaitStatus" /\ statusQueries = 3 /\ statusReplies = 2
    /\ statusData.data /\ status = Undefined

\* C5: every timer of the polling loop is set to 15000 ms, exactly one
\* timer fires between two consecutive status queries, and none fires
\* between the receipt of the job id and the first status query.
C5_FixedInterval ==
    /\ timerDelays \subseteq {15000}
    /\ statusQueries = 1 => lastGap = 0 /\ totalWaitMs = 0
    /\ statusQueries >= 2 => lastGap = 1
    /\ vpc = "awaitStatus" => timers = statusQueries - 1
    /\ vpc = "awaitTimer" =>
          timers = statusQueries /\ totalWaitMs = 15000 * (timers - 1)
    /\ vpc /= "awaitTimer" => totalWaitMs = 15000 * timers

C5_Witness ==
    vpc = "awaitStatus" /\ statusQueries = 3 /\ totalWaitMs = 30000

\* C6: a status query is sent only after the generation request returned
\* a video id.  A failed connection lookup sends no generation request; a
\* generation response with an error, or without a video id, makes the
\* stage raise with no status query sent and no download started.
C6_NoQueryBeforeJobId ==
    /\ statusQueries > 0 =>
          /\ generateReplies = 1
          /\ videoId \in VideoIds
          /\ responseData.video_id = videoId
    /\ generateCalls > 0 => connectionId \in ConnectionIds
    /\ generateCalls <= 1
    /\ (vpc = "raised" /\ connectionId = Undefined) =>
          generateCalls = 0 /\ statusQueries = 0 /\ downloads = 0
    /\ (generateReplies = 1 /\ responseData.error \in StartErrors) =>
          /\ vpc = "raised"
          /\ error = <<"HeyGen Start Error: ", "\"unauthorized\"">>
          /\ statusQueries = 0 /\ downloads = 0 /\ result = NoResult
    /\ (/\ generateReplies = 1 /\ responseData.body
        /\ responseData.error = Undefined
        /\ responseData.video_id \in {Undefined, ""}) =>
          /\ vpc = "raised"
          /\ error = <<"No Video ID received from HeyGen.">>
          /\ statusQueries = 0 /\ downloads = 0 /\ result = NoResult

C6_Witness ==
    /\ vpc = "raised" /\ responseData.data /\ responseData.video_id = ""
    /\ error = <<"No Video ID received from HeyGen.">>
(***************************************************************************)
(* Properties of the research parser, checked under SpecParse, and of      *)
(* runResearchStage, checked under SpecResearch.                           *)
(***************************************************************************)

\* The text with the markdown fences stripped parses as JSON.
StrictParse(out) == JSONparse(Trim(StripFences(out)))

\* The spans of a text that start with "[" and end with "]".
BracketedSpans(out) ==
    {SubSeq(out, i, k) : <<i, k>> \in
        {p \in Positions(out, "[") \X Positions(out, "]") : p[1] < p[2]}}

\* The span from the first "[" of a text to its last "]", if it has one.
OuterSpan(out) ==
    {sp \in BracketedSpans(out) : \A o \in BracketedSpans(out) :
        Len(o) <= Len(sp)}

\* The valid JSON array that starts at the first "[" of a text: the span
\* from the first "[" to the "]" that closes it, if that span parses.
FirstArray(out) ==
    {SubSeq(out, i, k) : <<i, k>> \in
        {p \in Positions(out, "[") \X Positions(out, "]") :
            /\ \A o \in Positions(out, "[") : p[1] <= o
            /\ p[1] < p[2]
            /\ JSONparse(SubSeq(out, p[1], p[2])).ok}}

\* The cascade as C7 states it, for the output `out` of a stream whose
\* collection is `value`, left there by the branch `via`.
CascadeAsClaimed(out, value, via) ==
    IF out = Null \/ out = <<>> THEN value = EmptyArray
    ELSE IF StrictParse(out).ok
    THEN value = StrictParse(out).val /\ via = "strict"
    ELSE IF \E sp \in BracketedSpans(out) : JSONparse(sp).ok
    THEN \E sp \in BracketedSpans(out) :
            JSONparse(sp).ok /\ value = JSONparse(sp).val
    ELSE value = EmptyArray

\* C7 as claimed: strict parse, else a bracketed span that parses, else the
\* empty collection; a strict parse that succeeds is the result.
C7_Original ==
    /\ "youtube" \in parsedStreams =>
          CascadeAsClaimed(ytResult, videos, videosVia)
    /\ "twitter" \in parsedStreams =>
          CascadeAsClaimed(twitterResult, twitterInsights, twitterVia)

\* The cascade as the code runs it.
CascadeAmended(out, value, via) ==
    IF out = Null \/ out = <<>> THEN value = EmptyArray /\ via = "initial"
    ELSE IF StrictParse(out).ok /\ StrictParse(out).val /= NullValue
    THEN value = StrictParse(out).val /\ via = "strict"
    ELSE IF StrictParse(out).ok
    THEN value = EmptyArray /\ via = "noMatch"
    ELSE IF \E sp \in OuterSpan(out) : JSONparse(sp).ok
    THEN /\ \E sp \in OuterSpan(out) : value = JSONparse(sp).val
         /\ via = "fallback"
    ELSE value = EmptyArray /\ via \in {"fallbackFailed", "noMatch"}

\* C7, amended: a null or empty output gives the empty collection.  If the
\* text with the fences stripped parses as JSON to a value other than null,
\* the result is that parse and the fallback is not attempted; if it parses
\* to null, the result is the empty collection.  Otherwise, if the span
\* from the first "[" of the raw text to its last "]" parses, the result is
\* that parse; otherwise the result is the empty collection.
C7_Cascade ==
    /\ "youtube" \in parsedStreams =>
          CascadeAmended(ytResult, videos, videosVia)
    /\ "twitter" \in parsedStreams =>
          CascadeAmended(twitterResult, twitterInsights, twitterVia)

C7_Witness ==
    /\ parsedStreams = {"youtube", "twitter"}
    /\ ~StrictParse(ytResult).ok
    /\ videosVia = "fallback" /\ videos = <<"[", "1", "]">>

\* Has the text a "]" after its first array?
ClosesAfter(out, arr) == \E sp \in BracketedSpans(out) : Len(sp) > Len(arr)

\* C8 as claimed: when the strict parse fails, a valid JSON array that
\* starts at the first "[" of the output is the result, whatever follows.
RecoversFirstArray(out, value) ==
    (HasOutput(out) /\ ~StrictParse(out).ok) =>
        \A arr \in FirstArray(out) : value = JSONparse(arr).val

C8_Original ==
    /\ "youtube" \in parsedStreams => RecoversFirstArray(ytResult, videos)
    /\ "twitter" \in parsedStreams =>
          RecoversFirstArray(twitterResult, twitterInsights)

RecoversOuterSpan(out, value, via) ==
    (HasOutput(out) /\ ~StrictParse(out).ok) =>
        \A arr \in FirstArray(out) :
            IF ClosesAfter(out, arr)
            THEN value = EmptyArray /\ via = "fallbackFailed"
            ELSE value = JSONparse(arr).val /\ via = "fallback"

\* C8, amended: when the strict parse fails, the fallback retries on the
\* span from the first "[" of the output to its last "]".  A valid JSON
\* array that starts at the first "[" is the result whatever text follows
\* it, further "[" included, as long as no "]" follows it; when a "]"
\* follows it the retry fails and the result is the empty collection.
C8_OuterSpan ==
    /\ "youtube" \in parsedStreams =>
          RecoversOuterSpan(ytResult, videos, videosVia)
    /\ "twitter" \in parsedStreams =>
          RecoversOuterSpan(twitterResult, twitterInsights, twitterVia)

C8_Witness ==
    /\ "youtube" \in parsedStreams
    /\ ytResult = <<"[", "1", "]", "[">>
    /\ videos = <<"[", "1", "]">> /\ videosVia = "fallback"

\* C9: the two streams are parsed by the same procedure, each from its own
\* output alone.  At the return each collection is what the procedure of
\* the other stream yields on the same text, equal outputs give equal
\* collections, and the parse of the Twitter output leaves `videos` as the
\* parse of the YouTube output left it.
C9_StreamsAlike ==
    /\ [](rpc = "returned" =>
            /\ videos = ParseTwitter(ytResult).value
            /\ videosVia = ParseTwitter(ytResult).via
            /\ twitterInsights = ParseVideos(twitterResult).value
            /\ twitterVia = ParseVideos(twitterResult).via
            /\ (ytResult = twitterResult => videos = twitterInsights)
            /\ researchData.videos = videos
            /\ researchData.twitterInsights = twitterInsights)
    /\ [][rpc = "awaitTwitterRun" =>
            videos' = videos /\ videosVia' = videosVia]_vars

C9_Witness ==
    /\ rpc = "returned"
    /\ videosVia = "strict" /\ videos = <<"[", "1", ",", "1", "]">>
    /\ twitterVia = "noMatch" /\ twitterInsights = EmptyArray

\* C10: whenever runResearchStage fulfils, videos and twitterInsights of
\* the returned object are arrays and rawTranscripts and trends strings.
C10_Original ==
    researchData.returned =>
        /\ IsArray(researchData.videos)
        /\ IsArray(researchData.twitterInsights)
        /\ researchData.rawTranscripts /= Undefined
        /\ researchData.trends /= Undefined

\* C18: once a status response said "completed", a download that fails
\* makes the stage reject and return nothing: a response whose status is
\* not 200 with "Failed to download video. Status: <code>", an error of
\* the request with that error.  A result is returned only after the file
\* emitted "finish".
C18_DownloadFailureRejects ==
    /\ statusCode \notin {Undefined, "200"} =>
            /\ vpc = "raised"
            /\ error = <<"Failed to download video. Status: ", statusCode>>
    /\ (status = "completed" /\ error = <<"Network error">>) =>
            vpc = "raised"
    /\ vpc = "raised" => result = NoResult /\ ~fileFinished
    /\ result /= NoResult =>
            /\ vpc = "returned"
            /\ fileFinished
            /\ statusCode = "200"
            /\ status = "completed"

\* The download was answered 404 after a "completed" status response.
C18_Witness ==
    /\ vpc = "raised"
    /\ status = "completed"
    /\ statusCode = "404"
    /\ downloads = 1

TimedOut ==
    /\ vpc = "raised"
    /\ error /= <<>>
    /\ error[1] = "Video generation timed out after "

\* C21, as stated: in a run where no status response is terminal, the
\* waits made before the timeout error is raised add up to 10 minutes.
C21_Original == TimedOut => totalWaitMs = 10 * 60000

(***************************************************************************)
(* Properties of runAudioStage, checked under SpecAudio.                   *)
(***************************************************************************)

\* A piece of a URL, as a reader means it: neither a blank nor markdown
\* link syntax.
UrlPiece(c) == c \notin {" ", ")", "]("}

RECURSIVE PiecesEnd(_, _)
PiecesEnd(t, i) ==
    IF i < Len(t) /\ UrlPiece(t[i + 1]) THEN PiecesEnd(t, i + 1) ELSE i

UrlStarts(t) ==
    {i \in 1..(Len(t) - 1) : t[i] \in Schemes /\ UrlPiece(t[i + 1])}

\* The first http(s) URL that occurs in the text, NoMatch if there is none.
FirstUrl(t) ==
    IF UrlStarts(t) = {} THEN NoMatch
    ELSE LET i == Min(UrlStarts(t)) IN SubSeq(t, i, PiecesEnd(t, i + 1))

\* C14, as stated: what runAudioStage returns is the first http(s) URL of
\* the model output, without the text and the markdown link syntax around
\* it, and the raw output itself (the empty string for a null or missing
\* output) when the output holds no URL.
C14_Original ==
    apc = "returned" =>
        audioReturn = (IF FirstUrl(rawOutput) /= NoMatch
                       THEN FirstUrl(rawOutput) ELSE rawOutput)

\* The output holds a URL on connect.composio.dev.
ContainsAuthLink(t) ==
    \E i \in 1..(Len(t) - 1) : t[i] \in Schemes /\ t[i + 1] = AuthHost

\* C15, as stated: when the model output holds an authentication link the
\* stage raises the "elevenlabs authentication pending" error and returns
\* no such link, while a URL on another host that holds the word "connect"
\* is returned as it is.
C15_Original ==
    /\ ContainsAuthLink(rawOutput) =>
            apc = "raised" /\ audioError = AuthPending
    /\ apc = "returned" => ~ContainsAuthLink(audioReturn)
    /\ (apc \in {"returned", "raised"}
        /\ rawOutput = <<"https://", "connect.io/a.mp3">>) =>
            apc = "returned" /\ audioReturn = rawOutput

(***************************************************************************)
(* Properties of runScriptingStage, checked under SpecScripting.           *)
(***************************************************************************)

\* C16: the prompt of a run holds the regeneration task, with the feedback
\* quoted in it, exactly when state.feedback is a non-empty string, and the
\* first-run task exactly when it is absent or empty: always one of the
\* two, never both.
C16_TaskByFeedback ==
    fullPrompt /= NoPrompt =>
        /\ Includes(fullPrompt, RegenerationTask)
            <=> sFeedback \notin {Undefined, ""}
        /\ Includes(fullPrompt, FirstRunTask)
            <=> sFeedback \in {Undefined, ""}
        /\ Includes(fullPrompt, RegenerationTask)
            => Includes(fullPrompt, sFeedback)

\* A run whose feedback is the empty string was sent the first-run task.
C16_Witness ==
    /\ spc = "returned"
    /\ sFeedback = ""
    /\ Includes(fullPrompt, FirstRunTask)

(***************************************************************************)
(* Properties of main, checked under SpecMain.                             *)
(***************************************************************************)

\* C11: the stages of main start in the order research, scripting, review,
\* audio, video.  No scripting run starts before the research stage
\* returned, no review before a scripting run returned, the audio stage
\* only after a review returned approved and with the script of that
\* review, the video stage only after the audio stage returned.
C11_StageOrder ==
    /\ calls.scripting > 0 => returns.research > 0
    /\ calls.review > 0 => returns.scripting > 0
    /\ calls.audio > 0 =>
            /\ approvals > 0
            /\ reviewResult.approved
            /\ audioArg = approvedScript
            /\ audioArg = reviewArg
    /\ calls.video > 0 => returns.audio > 0
    /\ calls.research <= 1 /\ calls.audio <= 1 /\ calls.video <= 1

\* The video stage was started in a run where a script had been turned
\* down before one was approved.
C11_Witness ==
    /\ mpc = "awaitVideo"
    /\ rejections > 0
    /\ calls.scripting > 1

\* C12: a review that returns not approved is followed, before anything
\* else, by another scripting run whose state carries the feedback of that
\* review; a review that returns approved clears the stored feedback and
\* ends the loop, and no scripting run starts after it.
C12_FeedbackLoop ==
    /\ [][rejections' = rejections + 1 =>
            /\ ~reviewResult'.approved
            /\ calls'.scripting = calls.scripting + 1
            /\ runFeedback' = reviewResult'.feedback
            /\ state'.feedback = reviewResult'.feedback]_vars
    /\ [][approvals' = approvals + 1 =>
            /\ state'.feedback = Undefined
            /\ scriptApproved'
            /\ calls'.scripting = calls.scripting]_vars
    /\ [][scriptApproved =>
            scriptApproved' /\ calls'.scripting = calls.scripting]_vars

\* A script was approved after another had been turned down with feedback,
\* and the stored feedback is gone.
C12_Witness ==
    /\ scriptApproved
    /\ rejections > 0
    /\ runFeedback \in Feedbacks
    /\ state.feedback = Undefined

\* C13, as stated: each script the scripting stage returned was put to the
\* user with the approval request before the next scripting run or the
\* audio stage started.
C13_Original == prompts = returns.scripting

\* C13, amended: a script that is not empty and does not start with
\* "Error:" is put to the user with the approval request before anything
\* else happens; an empty script or one that starts with "Error:" is
\* turned down without a prompt, with the feedback "Script generation
\* failed.", and the next scripting run starts.  The audio stage starts
\* only from the answer to an approval request.
C13_ValidPrompted ==
    /\ [][returns'.scripting = returns.scripting + 1 =>
            IF reviewArg' = <<>> \/ reviewArg'[1] = "Error:"
            THEN /\ prompts' = prompts
                 /\ reviewResult' = ReviewFailed
                 /\ calls'.scripting = calls.scripting + 1
                 /\ calls'.audio = calls.audio
            ELSE /\ prompts' = prompts + 1
                 /\ mpc' = "awaitConfirm"
                 /\ calls' = [calls EXCEPT !.review = @ + 1]]_vars
    /\ [][calls'.audio /= calls.audio => mpc = "awaitConfirm"]_vars
    /\ [][calls'.scripting /= calls.scripting /\ calls.scripting > 0 =>
            \/ mpc = "awaitFeedback"
            \/ mpc = "awaitScript" /\ reviewResult' = ReviewFailed]_vars

\* A script is before the user after the one before it was turned down
\* without a prompt.
C13_Witness ==
    /\ mpc = "awaitConfirm"
    /\ reviewResult = ReviewFailed
    /\ prompts < returns.scripting

(***************************************************************************)
(* Properties of concurrent video stages, checked under SpecConcurrent.    *)
(***************************************************************************)

\* C17, as stated: two calls of runVideoGenerationStage that run at once
\* and both return have saved their videos to different paths, also when
\* both got to the download at the same reading of the clock.
C17_Original ==
    \A r1, r2 \in Runs :
        (r1 /= r2 /\ runs[r1].pc = "returned" /\ runs[r2].pc = "returned")
            => runs[r1].savedPath /= runs[r2].savedPath

(***************************************************************************)
(* Properties of the CLI App, checked under SpecCli.                       *)
(***************************************************************************)

\* The changes of step the workflow allows: the chain from input to done,
\* each made by the resolved call of the step left or by the submission of
\* a form, and the move of a processing step to error when its call threw.
WorkflowSteps ==
    {<<"input", "research", "submit">>,
     <<"research", "generate", "research">>,
     <<"generate", "review", "generate">>,
     <<"review", "voiceover", "submit">>,
     <<"voiceover", "video", "voiceover">>,
     <<"video", "done", "video">>}
        \cup {<<fn, "error", fn>> : fn \in ProcessingSteps}

\* C19, as stated: the step of the CLI only advances along input, research,
\* generate, review, voiceover, video, done; a processing step moves on
\* only when its own workflow call resolved, review moves on only by a
\* feedback submission, an exception of a processing step moves the
\* workflow to error, and no workflow function is called after that.
C19_Original ==
    /\ stepsTaken \subseteq WorkflowSteps
    /\ ~invokedAfterError

(***************************************************************************)
(* Properties of runHumanReviewNode, checked under SpecReview.             *)
(***************************************************************************)

\* A script that is undefined, empty, or starts with "Error:".
NoValidScript(script) ==
    \/ script = Null
    \/ script = <<>>
    \/ script[1] = "Error:"

\* C22: for an invalid script no prompt is made and the result is
\* approved = false with the feedback "Script generation failed."; a
\* result with approved = true comes only after the answer yes to the
\* confirm prompt, for a valid script, and its feedback is undefined.
C22_NoApprovalOfInvalid ==
    /\ NoValidScript(hScript) => hPrompts = 0 /\ hpc \in {"start", "returned"}
    /\ hpc = "returned" /\ NoValidScript(hScript) =>
            /\ hResult.approved = FALSE
            /\ hResult.feedback = "Script generation failed."
    /\ hResult.approved =>
            /\ hpc = "returned"
            /\ confirmAnswer = <<TRUE>>
            /\ hPrompts = 1
            /\ ~NoValidScript(hScript)
            /\ hResult.feedback = Undefined

\* A script starting with "Error:" was turned down without a prompt.
C22_Witness ==
    /\ hpc = "returned"
    /\ hScript = <<"Error:", " ", "Hi">>
    /\ hResult = ReviewFailed
    /\ hPrompts = 0

(***************************************************************************)
(* Properties of the Composio client, checked under SpecClient.            *)
(***************************************************************************)

StageOf(at) ==
    CASE at = "awaitResearch" -> "research"
      [] at = "awaitScript" -> "scripting"
      [] at \in {"awaitConfirm", "awaitFeedback"} -> "review"
      [] at = "awaitAudio" -> "audio"
      [] at = "awaitVideo" -> "video"

\* The stages that come after a stage in main.
LaterStages(stage) ==
    CASE stage = "research" -> {"scripting", "review", "audio", "video"}
      [] stage \in {"scripting", "review"} -> {"audio", "video"}
      [] stage = "audio" -> {"video"}
      [] stage = "video" -> {}

\* C24: when a stage of main raises, main is in its catch, where it logs
\* "Pipeline Failed" and ends without an error of its own; no stage that
\* comes later has been started, and none is started afterwards.
C24_FailureEndsRun ==
    /\ [](failedIn /= Undefined =>
            /\ mpc = "failed"
            /\ \A stage \in LaterStages(StageOf(failedIn)) :
                    calls[stage] = 0
            /\ returns[StageOf(failedIn)] < calls[StageOf(failedIn)])
    /\ [][failedIn /= Undefined => calls' = calls /\ mpc' = mpc]_vars

\* The audio stage raised after an approved script: the video stage was
\* never called.
C24_Witness ==
    /\ mpc = "failed"
    /\ failedIn = "awaitAudio"
    /\ approvals = 1
    /\ calls.audio = 1
    /\ calls.video = 0

C27_Original == scriptApproved => calls.scripting = prompts

\* C27, amended: the loop is left only by an approval, which starts the
\* audio stage at once; by then every scripting run but the last was
\* rejected, presented or not, so the runs are the scripts presented plus
\* the scripts turned down unseen; a rejection always starts another run.
C27_ApprovalEndsLoop ==
    /\ [](scriptApproved =>
            /\ approvals = 1
            /\ calls.scripting = rejections + 1
            /\ returns.scripting = calls.scripting
            /\ prompts <= calls.scripting
            /\ calls.audio = 1)
    /\ [](calls.audio > 0 \/ mpc = "done" => scriptApproved)
    /\ [][rejections' = rejections + 1 =>
            ~scriptApproved' /\ calls'.scripting = calls.scripting + 1]_vars

\* The first script presented was approved after an earlier one had been
\* turned down unseen: two scripting runs, and the audio stage is called.
C27_Witness ==
    /\ mpc = "awaitAudio"
    /\ scriptApproved
    /\ prompts = 1
    /\ calls.scripting = 2

(***************************************************************************)
(* Properties of downloadVideo, checked under SpecDownloadFair and         *)
(* SpecVideo.                                                              *)
(***************************************************************************)

\* C28, as stated: whatever happens to the request, the response and the
\* write stream of a download, its promise is settled in the end: the
\* stage, which awaits it, returns or raises.
C28_Original == [](downloads = 1 => <>(vpc \in {"returned", "raised"}))

\* The stage raised because its download was rejected.
DownloadFailed ==
    /\ vpc = "raised"
    /\ downloads = 1
    /\ error[1] \in {"Failed to download video. Status: ", "Network error"}

\* C29, as stated: when a download fails, by an error of the request or by
\* a response other than 200, the removal of the output file made for it
\* has been attempted.
C29_Original == DownloadFailed => unlinkAttempted

(***************************************************************************)
(* A further property of the CLI App, checked under SpecCliFair.           *)
(***************************************************************************)

\* C30, as stated: once the video step has completed and the step is
\* 'done', exit() is called in the end.
C30_Original == [](step = "done" => <>exitCalled)

=============================================================================
